---- MODULE Spec2Model ----
(***************************************************************************)
(* Green Agent evaluation pipeline: the Purple-agent client                *)
(* (green/messenger.py), the isolated test runner   and scorers             *)
(* (green/agent.py) and the request executor (green/executor.py).          *)
(*                                                                         *)
(* Two specifications share the client's actions:                          *)
(*   Spec          - one GreenAgentExecutor serving evaluation requests;   *)
(*   MessengerSpec - one PurpleAgentMessenger instance driven directly by  *)
(*                   a caller issuing generate_tests() and close().        *)
(* Scores are exact rationals <<numerator, denominator>> in lowest terms.  *)
(***************************************************************************)
EXTENDS Integers, Sequences, FiniteSets, TLC

(* ------------------------------ bounds --------------------------------- *)

\* largest settings.task_count explored
MaxTasks == 2

\* number of generate_tests()/close() operations a direct caller issues
MaxCalls == 3

(* ------------------------- program constants --------------------------- *)

\* PurpleAgentMessenger.__init__ default max_retries
max_retries == 3

\* PurpleAgentMessenger.__init__ default base_url
base_url == "http://localhost:9010"

\* Optional values are sequences: NoneV is Python's None, Some(x) a value.
NoneV == <<>>
Some(x) == <<x>>

\* An exception-free error slot
NoError == "None"

(* ---------------------------- messenger.py ---------------------------- *)

\* Source texts Purple may send back; wellformed says whether ast.parse
\* accepts the text.
GoodTests == [src |-> "def test_ok(): pass", wellformed |-> TRUE]
BadTests == [src |-> "def test_broken(", wellformed |-> FALSE]

TextPart(t) == [type |-> "text", text |-> Some(t)]
DataPart == [type |-> "data", text |-> NoneV]
NonTupleEvent == [kind |-> "message", state |-> "", artifacts |-> <<>>]
TaskEvent(state, artifacts) == [kind |-> "task", state |-> state, artifacts |-> artifacts]

\* What one client.send_message(message) stream does: the events it yields
\* and the exception that ends it (NoError when it ends normally).
Responses ==
    { [events |-> <<TaskEvent("completed", << <<TextPart(GoodTests)>> >>)>>, error |-> NoError],
      [events |-> <<NonTupleEvent, TaskEvent("working", <<>>),
                    TaskEvent("completed", << <<DataPart>>, <<DataPart, TextPart(GoodTests)>> >>)>>,
       error |-> NoError],
      [events |-> <<TaskEvent("completed", << <<TextPart(BadTests)>> >>)>>, error |-> NoError],
      [events |-> <<>>, error |-> NoError],
      [events |-> <<TaskEvent("working", <<>>), TaskEvent("completed", <<>>)>>, error |-> NoError],
      [events |-> <<TaskEvent("completed", << <<DataPart>> >>),
                    TaskEvent("completed", << <<TextPart(GoodTests)>> >>)>>, error |-> NoError],
      [events |-> <<>>, error |-> "TimeoutException"],
      [events |-> <<TaskEvent("working", <<>>)>>, error |-> "ConnectError"],
      [events |-> <<TaskEvent("completed", << <<TextPart(GoodTests)>> >>)>>,
       error |-> "TimeoutException"] }

\* Outcome of ClientFactory.connect(url): a client, or a transport exception.
ConnectOutcomes == {"connected", "ConnectTimeout"}

\* Result of a call: a returned value (an optional) or a raised exception
\* with its type, message text and, for the exhausted-retries message, the
\* attempt count and the underlying error it names.
Returned(v) == [kind |-> "return", value |-> v, type |-> "", text |-> "", n |-> 0, cause |-> NoError]
Raised(type, text, n, cause) ==
    [kind |-> "raise", value |-> NoneV, type |-> type, text |-> text, n |-> n, cause |-> cause]

RECURSIVE FirstTextInParts(_)
FirstTextInParts(parts) ==
    IF parts = <<>> THEN NoneV
    ELSE IF Head(parts).type = "text" THEN Head(parts).text
    ELSE FirstTextInParts(Tail(parts))

RECURSIVE _extract_text_from_artifacts(_)
_extract_text_from_artifacts(artifacts) ==
    IF artifacts = <<>> THEN NoneV
    ELSE LET t == FirstTextInParts(Head(artifacts))
         IN IF t # NoneV THEN t ELSE _extract_text_from_artifacts(Tail(artifacts))

_validate_syntax(code) ==
    IF code.wellformed THEN Returned(NoneV)
    ELSE Raised("PurpleAgentError", "Invalid Python syntax in response", 0, "SyntaxError")

\* The async-for loop of _request_tests over the stream: the value of
\* `tests` when the loop is left, or the exception the stream raised.
RECURSIVE ReadStream(_, _)
ReadStream(events, error) ==
    IF events = <<>>
    THEN (IF error = NoError THEN Returned(NoneV) ELSE Raised(error, error, 0, NoError))
    ELSE LET event == Head(events)
         IN IF event.kind # "task" THEN ReadStream(Tail(events), error)
            ELSE IF event.state = "completed" /\ event.artifacts # <<>>
            THEN Returned(_extract_text_from_artifacts(event.artifacts))
            ELSE ReadStream(Tail(events), error)

\* _get_client without the `url not in self._clients` test
_get_client_NoCache(cache, url, conn) ==
    IF conn = "connected"
    THEN [cache |-> cache \cup {url}, result |-> Returned(Some(url)), connected |-> TRUE]
    ELSE [cache |-> cache, result |-> Raised(conn, conn, 0, NoError), connected |-> FALSE]

\* _get_client(url) on the cache self._clients (the set of cached URLs)
_get_client(cache, url, conn) ==
    IF url \notin cache
    THEN IF conn = "connected"
         THEN [cache |-> cache \cup {url}, result |-> Returned(Some(url)), connected |-> TRUE]
         ELSE [cache |-> cache, result |-> Raised(conn, conn, 0, NoError), connected |-> FALSE]
    ELSE [cache |-> cache, result |-> Returned(Some(url)), connected |-> FALSE]

\* _request_tests raising a ValueError when the stream carried no tests
_request_tests_NoTestsValueError(cache, conn, resp) ==
    LET c == _get_client(cache, base_url, conn)
    IN IF c.result.kind = "raise"
       THEN [cache |-> c.cache, connected |-> c.connected, result |-> c.result]
       ELSE LET s == ReadStream(resp.events, resp.error)
                r == IF s.kind = "raise" THEN s
                     ELSE IF s.value = NoneV
                     THEN Raised("ValueError", "No tests returned from Purple Agent", 0, NoError)
                     ELSE LET v == _validate_syntax(s.value[1])
                          IN IF v.kind = "raise" THEN v ELSE Returned(s.value)
            IN [cache |-> c.cache, connected |-> c.connected, result |-> r]

\* _request_tests(message): one attempt
_request_tests(cache, conn, resp) ==
    LET c == _get_client(cache, base_url, conn)
    IN IF c.result.kind = "raise"
       THEN [cache |-> c.cache, connected |-> c.connected, result |-> c.result]
       ELSE LET s == ReadStream(resp.events, resp.error)
                r == IF s.kind = "raise" THEN s
                     ELSE IF s.value = NoneV
                     THEN Raised("PurpleAgentError", "No tests returned from Purple Agent", 0, NoError)
                     ELSE LET v == _validate_syntax(s.value[1])
                          IN IF v.kind = "raise" THEN v ELSE Returned(s.value)
            IN [cache |-> c.cache, connected |-> c.connected, result |-> r]

RECURSIVE Pow2(_)
Pow2(k) == IF k = 0 THEN 1 ELSE 2 * Pow2(k - 1)

\* _retry_with_backoff without the `attempt < self.max_retries - 1` test
_retry_with_backoff_Always(attempt) == <<Pow2(attempt)>>

\* _retry_with_backoff(attempt, error): the delays slept (none or one)
_retry_with_backoff(attempt) ==
    IF attempt < max_retries - 1 THEN <<Pow2(attempt)>> ELSE <<>>


(* --------------------------- exact rationals ---------------------------- *)

RECURSIVE GCD(_, _)
GCD(a, b) == IF b = 0 THEN a ELSE GCD(b, a % b)

\* n/d in lowest terms, d > 0, n >= 0
Rat(n, d) == LET g == GCD(n, d) IN <<n \div g, d \div g>>
Zero == <<0, 1>>
One == <<1, 1>>
RAdd(x, y) == Rat(x[1] * y[2] + y[1] * x[2], x[2] * y[2])
RDivInt(x, k) == Rat(x[1], x[2] * k)

RECURSIVE RSum(_)
RSum(xs) == IF xs = <<>> THEN Zero ELSE RAdd(Head(xs), RSum(Tail(xs)))

\* round(x, 2) for x = n/d >= 0: the nearest hundredth, ties to even
Round2(x) ==
    LET n == 100 * x[1]
        q == n \div x[2]
        r == n % x[2]
        h == IF 2 * r < x[2] THEN q
             ELSE IF 2 * r > x[2] THEN q + 1
             ELSE IF q % 2 = 0 THEN q ELSE q + 1
    IN Rat(h, 100)

(* ------------------------------ agent.py -------------------------------- *)

Tracks == {"tdd", "bdd"}

TaskFiles == {"metadata.json", "spec.py", "spec.feature",
              "implementation/correct.py", "implementation/buggy.py"}

\* Contents of metadata.json: unreadable/invalid JSON, or an object that
\* has or lacks the keys task_id and function_name.
Metadatas == {"invalid", "complete", "no_keys"}

\* The task directories load_task may find on disk
TaskDirs == [files : SUBSET TaskFiles, metadata : Metadatas]

TaskLoadError(text, path) == Raised("TaskLoadError", text, 0, path)

Task(task_id, function_name, track, spec, correct_implementation, buggy_implementation) ==
    [task_id |-> task_id, function_name |-> function_name, track |-> track, spec |-> spec,
     correct_implementation |-> correct_implementation,
     buggy_implementation |-> buggy_implementation]

load_task(task_dir, track) ==
    IF "metadata.json" \notin task_dir.files
    THEN TaskLoadError("Missing metadata.json", "metadata.json")
    ELSE IF task_dir.metadata = "invalid"
    THEN TaskLoadError("Failed to read metadata.json", "metadata.json")
    ELSE LET task_id == IF task_dir.metadata = "complete" THEN "task_001_add" ELSE ""
             function_name == IF task_dir.metadata = "complete" THEN "add" ELSE ""
             spec_file == IF track = "tdd" THEN "spec.py" ELSE "spec.feature"
         IN IF spec_file \notin task_dir.files
            THEN TaskLoadError("Missing spec file", spec_file)
            ELSE IF "implementation/correct.py" \notin task_dir.files
            THEN TaskLoadError("Missing correct.py", "implementation/correct.py")
            ELSE IF "implementation/buggy.py" \notin task_dir.files
            THEN TaskLoadError("Missing buggy.py", "implementation/buggy.py")
            ELSE Returned(Some(Task(task_id, function_name, track, spec_file,
                                    "correct.py text", "buggy.py text")))

\* What the isolated run does in one run: writing the workspace files succeeds
\* or raises OSError; subprocess.run cannot start pytest and raises
\* FileNotFoundError, or pytest exits with a return code or exceeds the
\* 30-second timeout (its captured stderr may then be absent).
ProcOutcomes ==
    { [setup |-> "ok", kind |-> "exit", returncode |-> 0, stderr |-> <<>>],
      [setup |-> "ok", kind |-> "exit", returncode |-> 1, stderr |-> <<>>],
      [setup |-> "ok", kind |-> "exit", returncode |-> 2, stderr |-> <<"ImportError">>],
      [setup |-> "ok", kind |-> "exit", returncode |-> 5, stderr |-> <<>>],
      [setup |-> "ok", kind |-> "timeout", returncode |-> 0, stderr |-> <<>>],
      [setup |-> "ok", kind |-> "timeout", returncode |-> 0, stderr |-> <<"partial">>],
      [setup |-> "ok", kind |-> "spawn_error", returncode |-> 0, stderr |-> <<>>],
      [setup |-> "OSError", kind |-> "exit", returncode |-> 0, stderr |-> <<>>] }

TimeoutAnnotation == "ERROR: Test execution exceeded 30-second timeout"

TestExecutionResult(exit_code, stderr, passed, failure_type) ==
    [exit_code |-> exit_code, stderr |-> stderr, passed |-> passed,
     failure_type |-> failure_type]

\* _execute_test_in_isolation with the timeout branch reporting exit code 0
_execute_test_in_isolation_TimeoutExitZero(test_code, implementation, implementation_filename, proc) ==
    IF proc.setup # "ok" THEN Raised(proc.setup, "write_text failed", 0, NoError)
    ELSE IF proc.kind = "spawn_error"
    THEN Raised("FileNotFoundError", "pytest", 0, NoError)
    ELSE IF proc.kind = "timeout"
    THEN Returned(Some(TestExecutionResult(0, Append(proc.stderr, TimeoutAnnotation),
                                           FALSE, "timeout")))
    ELSE LET exit_code == proc.returncode
             failure_type == IF exit_code = 0 THEN "none"
                             ELSE IF exit_code = 1 THEN "assertion"
                             ELSE "infrastructure"
         IN Returned(Some(TestExecutionResult(exit_code, proc.stderr, exit_code = 0,
                                              failure_type)))

\* _execute_test_in_isolation tagging every non-zero exit code as assertion
_execute_test_in_isolation_NoInfrastructure(test_code, implementation, implementation_filename, proc) ==
    IF proc.setup # "ok" THEN Raised(proc.setup, "write_text failed", 0, NoError)
    ELSE IF proc.kind = "spawn_error"
    THEN Raised("FileNotFoundError", "pytest", 0, NoError)
    ELSE IF proc.kind = "timeout"
    THEN Returned(Some(TestExecutionResult(1, Append(proc.stderr, TimeoutAnnotation),
                                           FALSE, "timeout")))
    ELSE LET exit_code == proc.returncode
             failure_type == IF exit_code = 0 THEN "none" ELSE "assertion"
         IN Returned(Some(TestExecutionResult(exit_code, proc.stderr, exit_code = 0,
                                              failure_type)))

\* _execute_test_in_isolation without `except subprocess.TimeoutExpired`
_execute_test_in_isolation_TimeoutRaises(test_code, implementation, implementation_filename, proc) ==
    IF proc.setup # "ok" THEN Raised(proc.setup, "write_text failed", 0, NoError)
    ELSE IF proc.kind = "spawn_error"
    THEN Raised("FileNotFoundError", "pytest", 0, NoError)
    ELSE IF proc.kind = "timeout"
    THEN Raised("TimeoutExpired", "pytest", 0, NoError)
    ELSE LET exit_code == proc.returncode
             failure_type == IF exit_code = 0 THEN "none"
                             ELSE IF exit_code = 1 THEN "assertion"
                             ELSE "infrastructure"
         IN Returned(Some(TestExecutionResult(exit_code, proc.stderr, exit_code = 0,
                                              failure_type)))

\* stdout and execution_time are carried through unread and are left out.
_execute_test_in_isolation(test_code, implementation, implementation_filename, proc) ==
    IF proc.setup # "ok" THEN Raised(proc.setup, "write_text failed", 0, NoError)
    ELSE IF proc.kind = "spawn_error"
    THEN Raised("FileNotFoundError", "pytest", 0, NoError)
    ELSE IF proc.kind = "timeout"
    THEN Returned(Some(TestExecutionResult(1, Append(proc.stderr, TimeoutAnnotation),
                                           FALSE, "timeout")))
    ELSE LET exit_code == proc.returncode
             failure_type == IF exit_code = 0 THEN "none"
                             ELSE IF exit_code = 1 THEN "assertion"
                             ELSE "infrastructure"
         IN Returned(Some(TestExecutionResult(exit_code, proc.stderr, exit_code = 0,
                                              failure_type)))

\* The argument vector _execute_test_in_isolation hands to subprocess.run
pytest_command(test_file) == <<"pytest", test_file, "-v">>

\* The command of one run: the function has no track parameter.
_execute_test_in_isolation_command(test_code, implementation, implementation_filename) ==
    pytest_command("test_generated.py")

\* The commands of the two wrappers, which take track and do not use it
execute_test_against_correct_command(test_code, correct_implementation, track) ==
    _execute_test_in_isolation_command(test_code, correct_implementation, "correct.py")

execute_test_against_buggy_command(test_code, buggy_implementation, track) ==
    _execute_test_in_isolation_command(test_code, buggy_implementation, "buggy.py")

\* Whether subprocess.run started pytest in the workspace
SubprocessStarted(proc) == proc.setup = "ok" /\ proc.kind # "spawn_error"

\* `with tempfile.TemporaryDirectory() as temp_dir`: entering creates the
\* directory d; leaving the block removes it, however the block is left
\* (r is what the block returned or raised).
TemporaryDirectory_enter(dirs, d) == dirs \cup {d}

\* A workspace removed only when the block returns
TemporaryDirectory_exit_OnReturnOnly(dirs, d, r) ==
    IF r.kind = "return" THEN dirs \ {d} ELSE dirs

TemporaryDirectory_exit(dirs, d, r) == dirs \ {d}

execute_test_against_correct(test_code, correct_implementation, track, proc) ==
    _execute_test_in_isolation(test_code, correct_implementation, "correct.py", proc)

execute_test_against_buggy(test_code, buggy_implementation, track, proc) ==
    _execute_test_in_isolation(test_code, buggy_implementation, "buggy.py", proc)

\* A score that looks at the run against correct only
calculate_fault_detection_score_IgnoreBuggy(correct_result, buggy_result) ==
    IF correct_result = NoneV \/ buggy_result = NoneV THEN Zero
    ELSE IF correct_result[1].passed THEN One
    ELSE Zero

\* correct_result, buggy_result: optional TestExecutionResults
calculate_fault_detection_score(correct_result, buggy_result) ==
    IF correct_result = NoneV \/ buggy_result = NoneV THEN Zero
    ELSE IF correct_result[1].passed /\ ~buggy_result[1].passed THEN One
    ELSE Zero

aggregate_fault_detection_scores(scores) ==
    IF scores = <<>> THEN Zero ELSE RDivInt(RSum(scores), Len(scores))

\* What the mutation tool does in one run: a report of killed/total
\* mutants, no usable result (tool missing, timeout, spawn error), or an
\* exception escaping the driver.
MutationOutcomes ==
    { [kind |-> "report", killed |-> 1, total |-> 2],
      [kind |-> "unavailable", killed |-> 0, total |-> 0],
      [kind |-> "raise", killed |-> 0, total |-> 0] }

\* The outcomes without a usable result: the tool is not located, the
\* subprocess times out, the process cannot be spawned
ToolFailures == {"unavailable", "timeout", "spawn_error"}

\* The error string the driver sets for a tool failure
ToolError(kind) ==
    IF kind = "unavailable" THEN "mutmut unavailable"
    ELSE IF kind = "timeout" THEN "mutmut timed out"
    ELSE "mutmut could not be started"

MutationResult(killed, survived, total, mutation_score, error) ==
    [killed |-> killed, survived |-> survived, total |-> total,
     mutation_score |-> mutation_score, error |-> error]

\* A driver that scores the surviving mutants
run_mutation_testing_ScoreOfSurvived(test_code, correct_implementation, track, out) ==
    IF out.kind = "raise" THEN Raised("OSError", "mutation workspace", 0, NoError)
    ELSE IF out.kind \in ToolFailures
    THEN Returned(Some(MutationResult(0, 0, 0, Zero, ToolError(out.kind))))
    ELSE Returned(Some(MutationResult(out.killed, out.total - out.killed, out.total,
                                      IF out.total > 0
                                      THEN Rat(out.total - out.killed, out.total) ELSE Zero,
                                      NoError)))

run_mutation_testing(test_code, correct_implementation, track, out) ==
    IF out.kind = "raise" THEN Raised("OSError", "mutation workspace", 0, NoError)
    ELSE IF out.kind \in ToolFailures
    THEN Returned(Some(MutationResult(0, 0, 0, Zero, ToolError(out.kind))))
    ELSE Returned(Some(MutationResult(out.killed, out.total - out.killed, out.total,
                                      IF out.total > 0 THEN Rat(out.killed, out.total) ELSE Zero,
                                      NoError)))

CompositeScore(mutation_score, fault_detection_rate, score) ==
    [mutation_score |-> mutation_score, fault_detection_rate |-> fault_detection_rate,
     score |-> score]

calculate_composite_score(mutation_score, fault_detection_rate) ==
    CompositeScore(mutation_score, fault_detection_rate,
                   Round2(RAdd(RDivInt(<<60 * mutation_score[1], mutation_score[2]>>, 100),
                               RDivInt(<<40 * fault_detection_rate[1], fault_detection_rate[2]>>, 100))))

TaskDetail(task_id, mutation_score, fault_detection_rate, composite_score, passed_correct, failed_buggy) ==
    [task_id |-> task_id, mutation_score |-> mutation_score,
     fault_detection_rate |-> fault_detection_rate, composite_score |-> composite_score,
     passed_correct |-> passed_correct, failed_buggy |-> failed_buggy]

generate_agentbeats_results(participant_id, task_details, composite, pass_rate, track) ==
    [participants |-> [agent |-> participant_id],
     results |-> << [score |-> composite.score,
                     pass_rate |-> pass_rate,
                     task_rewards |-> [mutation_score |-> composite.mutation_score,
                                       fault_detection_rate |-> composite.fault_detection_rate,
                                       track |-> track,
                                       task_count |-> Len(task_details)],
                     detail |-> [task_details |-> task_details]] >>]

(* ------------------------------- state ---------------------------------- *)

VARIABLES
    \* PurpleAgentMessenger
    clients,        \* self._clients: the URLs with a cached client
    attempt,        \* generate_tests: loop variable
    last_error,     \* generate_tests: last_error
    mpc,            \* generate_tests: idle, attempt, sleeping, returned, raised
    mresult,        \* what generate_tests returned or raised
    \* history of the messenger
    attempt_log,    \* results of the _request_tests calls of the current generate_tests
    sleeps,         \* asyncio.sleep delays of the current generate_tests
    connects,       \* ClientFactory.connect calls that returned since construction or close()
    ok_calls,       \* generate_tests calls that returned since construction or close()
    close_calls,    \* close() calls on the messenger
    calls,          \* operations issued by the direct caller (MessengerSpec)
    \* GreenAgentExecutor
    track,          \* settings.track
    task_count,     \* settings.task_count
    pc,             \* position in execute()
    trace_id,
    participant_id,
    i,
    task,
    test_code,
    correct_result,
    buggy_result,
    fault_detection_scores,
    mutation_scores,
    task_details,
    result_data,    \* payload of the artifact being emitted
    events,         \* events accepted by event_queue, in order
    propagated,     \* execute() left by an exception
    \* history of the executor
    step_raised,    \* per processed task: the step that raised, or "none"
    outer_failure,  \* what raised into the outer handler of execute(), or "none"
    cancel_at,      \* len(task_details) when cancel() was first called, or -1
    dispatched_after_cancel, \* a task was started after cancel() was called
    last_run,       \* the test-runner call made last for the current task, if any
    call_log        \* the collaborator calls of this execute(), in order: <<task, step>>

mvars == <<clients, attempt, last_error, mpc, mresult, attempt_log, sleeps, connects,
           ok_calls, close_calls, calls>>
evars == <<track, task_count, pc, trace_id, participant_id, i, task, test_code,
           correct_result, buggy_result, fault_detection_scores, mutation_scores,
           task_details, result_data, events, propagated, step_raised, outer_failure,
           cancel_at, dispatched_after_cancel, last_run, call_log>>

VARIABLES
    \* the server: requests handled by the one executor instance
    requests,       \* per request: position in execute(), i, trace_id, workspaces used,
                    \* headers of its response
    tmp_dirs,       \* the temporary directories that exist
    mkdtemp_calls,  \* temporary directories created so far
    uuid4_calls,    \* uuid4() values drawn so far
    finished_run,   \* the test-runner invocation that ended last
    \* a caller applying the scoring functions
    scored,         \* the function applied last, its arguments and its result
    \* a caller running execute() again with the same collaborators
    fixed,          \* the request text and what the collaborators return for each task
    envelopes,      \* result_data of the runs that are over
    \* generate_tests calls running at the same time on one messenger
    callers,        \* per call: position, attempt, last_error, the client it uses
    cached_client   \* the client object self._clients holds for base_url, 0 for none

svars == <<requests, tmp_dirs, mkdtemp_calls, uuid4_calls, finished_run>>
rvars == <<fixed, envelopes>>
cvars == <<callers, cached_client>>
xvars == <<svars, scored, rvars, cvars>>
vars == <<mvars, evars, xvars>>

(* ----------------------- PurpleAgentMessenger actions ------------------- *)

\* PurpleAgentMessenger.__init__
MessengerInit ==
    /\ clients = {}
    /\ attempt = 0
    /\ last_error = NoError
    /\ mpc = "idle"
    /\ mresult = Returned(NoneV)
    /\ attempt_log = <<>>
    /\ sleeps = <<>>
    /\ connects = 0
    /\ ok_calls = 0
    /\ close_calls = 0
    /\ calls = 0

\* messenger = PurpleAgentMessenger() inside execute()
NewMessenger ==
    /\ clients' = {}
    /\ attempt' = 0
    /\ last_error' = NoError
    /\ mpc' = "idle"
    /\ mresult' = Returned(NoneV)
    /\ attempt_log' = <<>>
    /\ sleeps' = <<>>
    /\ connects' = 0
    /\ ok_calls' = 0
    /\ close_calls' = 0
    /\ calls' = 0

\* Entry of generate_tests(spec, track): message built, last_error = None,
\* the loop about to make attempt 0.
GenerateTestsEnter ==
    /\ mpc' = "attempt"
    /\ attempt' = 0
    /\ last_error' = NoError
    /\ mresult' = Returned(NoneV)
    /\ attempt_log' = <<>>
    /\ sleeps' = <<>>
    /\ UNCHANGED <<clients, connects, ok_calls, close_calls>>

\* generate_tests has handed its result to the caller: its locals are gone.
GenerateTestsLeave ==
    /\ mpc' = "idle"
    /\ attempt' = 0
    /\ last_error' = NoError
    /\ mresult' = Returned(NoneV)
    /\ attempt_log' = <<>>
    /\ sleeps' = <<>>
    /\ UNCHANGED <<clients, connects, ok_calls, close_calls>>

\* The raise after the retry loop of generate_tests
ExhaustedError(error) ==
    Raised("PurpleAgentError", "Failed after attempts", max_retries, error)

\* The retry loop running one attempt too many
for_attempt_next_OneMore(k, error) ==
    IF k + 1 < max_retries + 1
    THEN [mpc |-> "attempt", attempt |-> k + 1, result |-> Returned(NoneV)]
    ELSE [mpc |-> "raised", attempt |-> k, result |-> ExhaustedError(error)]

\* `for attempt in range(self.max_retries)` moving on from attempt k: the
\* next attempt, or the end of the loop and the raise that follows it.
for_attempt_next(k, error) ==
    IF k + 1 < max_retries
    THEN [mpc |-> "attempt", attempt |-> k + 1, result |-> Returned(NoneV)]
    ELSE [mpc |-> "raised", attempt |-> k, result |-> ExhaustedError(error)]

\* generate_tests without `except PurpleAgentError: raise`: every
\* exception is retried.
generate_tests_handle_RetryAll(k, r) ==
    IF r.kind = "return"
    THEN [mpc |-> "returned", attempt |-> k, result |-> r, last_error |-> last_error,
          slept |-> <<>>]
    ELSE LET slept == _retry_with_backoff(k)
             nxt == for_attempt_next(k, r.type)
         IN IF slept # <<>>
            THEN [mpc |-> "sleeping", attempt |-> k, result |-> Returned(NoneV),
                  last_error |-> r.type, slept |-> slept]
            ELSE [mpc |-> nxt.mpc, attempt |-> nxt.attempt, result |-> nxt.result,
                  last_error |-> r.type, slept |-> slept]

\* The try/except of generate_tests around the result r of
\* _request_tests in attempt k: return it, re-raise a PurpleAgentError, or
\* record the error and back off.
generate_tests_handle(k, r) ==
    IF r.kind = "return"
    THEN [mpc |-> "returned", attempt |-> k, result |-> r, last_error |-> last_error,
          slept |-> <<>>]
    ELSE IF r.type = "PurpleAgentError"
    THEN [mpc |-> "raised", attempt |-> k, result |-> r, last_error |-> last_error,
          slept |-> <<>>]
    ELSE LET slept == _retry_with_backoff(k)
             nxt == for_attempt_next(k, r.type)
         IN IF slept # <<>>
            THEN [mpc |-> "sleeping", attempt |-> k, result |-> Returned(NoneV),
                  last_error |-> r.type, slept |-> slept]
            ELSE [mpc |-> nxt.mpc, attempt |-> nxt.attempt, result |-> nxt.result,
                  last_error |-> r.type, slept |-> slept]

\* One iteration of the retry loop, up to the point where generate_tests
\* returns, raises or suspends in asyncio.sleep.
RequestAttempt ==
    /\ mpc = "attempt"
    /\ \E conn \in ConnectOutcomes, resp \in Responses :
         LET a == _request_tests(clients, conn, resp)
             h == generate_tests_handle(attempt, a.result)
         IN /\ clients' = a.cache
            /\ connects' = IF a.connected THEN connects + 1 ELSE connects
            /\ attempt_log' = Append(attempt_log, a.result)
            /\ last_error' = h.last_error
            /\ sleeps' = sleeps \o h.slept
            /\ mpc' = h.mpc
            /\ attempt' = h.attempt
            /\ mresult' = h.result
            /\ ok_calls' = IF h.mpc = "returned" THEN ok_calls + 1 ELSE ok_calls
    /\ UNCHANGED close_calls

\* asyncio.sleep(delay) is over: the loop goes on.
BackoffWake ==
    /\ mpc = "sleeping"
    /\ LET nxt == for_attempt_next(attempt, last_error)
       IN /\ mpc' = nxt.mpc
          /\ attempt' = nxt.attempt
          /\ mresult' = nxt.result
    /\ UNCHANGED <<clients, last_error, attempt_log, sleeps, connects, ok_calls, close_calls>>

\* close(): self._clients.clear()
close ==
    /\ clients' = {}
    /\ close_calls' = close_calls + 1
    /\ connects' = 0
    /\ ok_calls' = 0

(* ------------------- a caller driving one messenger --------------------- *)

CallerGenerateTests ==
    /\ mpc = "idle"
    /\ calls < MaxCalls
    /\ calls' = calls + 1
    /\ GenerateTestsEnter
    /\ UNCHANGED evars
    /\ UNCHANGED xvars

CallerAwaitResult ==
    /\ mpc \in {"returned", "raised"}
    /\ GenerateTestsLeave
    /\ UNCHANGED calls
    /\ UNCHANGED evars
    /\ UNCHANGED xvars

CallerClose ==
    /\ mpc = "idle"
    /\ calls < MaxCalls
    /\ calls' = calls + 1
    /\ close
    /\ UNCHANGED <<attempt, last_error, mpc, mresult, attempt_log, sleeps>>
    /\ UNCHANGED evars
    /\ UNCHANGED xvars

MessengerStep ==
    /\ (RequestAttempt \/ BackoffWake)
    /\ UNCHANGED calls
    /\ UNCHANGED evars
    /\ UNCHANGED xvars

(* ------------------------ GreenAgentExecutor ---------------------------- *)

\* Texts context.get_user_input() may return, as character sequences
UserInputs == { <<>>, <<" ">>, <<"p", "1">>, <<" ", "p", "1", " ">> }
Unknown == <<"u", "n", "k", "n", "o", "w", "n">>

RECURSIVE LStrip(_)
LStrip(s) == IF s # <<>> /\ Head(s) = " " THEN LStrip(Tail(s)) ELSE s

RECURSIVE RStrip(_)
RStrip(s) == IF s # <<>> /\ s[Len(s)] = " " THEN RStrip(SubSeq(s, 1, Len(s) - 1)) ELSE s

\* str.strip()
Strip(s) == RStrip(LStrip(s))

\* uuid.uuid4() values
TraceIds == {"uuid-a"}

\* time.time() - start_time values
Latencies == {2}

\* f"task_{i + 1:03d}" for i + 1 < 1000
TaskIdOf(k) == <<"task_", ((k + 1) \div 100) % 10, ((k + 1) \div 10) % 10, (k + 1) % 10>>

ArtifactEvent(data) == [type |-> "artifact", final |-> FALSE, state |-> "", data |-> Some(data)]
StatusEvent(state) == [type |-> "status", final |-> TRUE, state |-> state, data |-> NoneV]

\* GreenAgentExecutor.__init__: settings loaded from the scenario file
ExecutorInit ==
    /\ track \in Tracks
    /\ task_count \in 0..MaxTasks
    /\ pc = "idle"
    /\ trace_id = ""
    /\ participant_id = <<>>
    /\ i = 0
    /\ task = NoneV
    /\ test_code = NoneV
    /\ correct_result = NoneV
    /\ buggy_result = NoneV
    /\ fault_detection_scores = <<>>
    /\ mutation_scores = <<>>
    /\ task_details = <<>>
    /\ result_data = NoneV
    /\ events = <<>>
    /\ propagated = FALSE
    /\ step_raised = <<>>
    /\ outer_failure = "none"
    /\ cancel_at = -1
    /\ dispatched_after_cancel = FALSE
    /\ last_run = NoneV
    /\ call_log = <<>>

\* An entry that leaves the task_details of the run before in place
ExecuteEntry_KeepsDetails ==
    /\ pc \in {"idle", "done"}
    /\ \E tid \in TraceIds, input \in UserInputs :
         /\ trace_id' = tid
         /\ participant_id' = IF Strip(input) # <<>> THEN Strip(input) ELSE Unknown
    /\ NewMessenger
    /\ i' = 0
    /\ task' = NoneV
    /\ test_code' = NoneV
    /\ correct_result' = NoneV
    /\ buggy_result' = NoneV
    /\ fault_detection_scores' = <<>>
    /\ mutation_scores' = <<>>
    /\ task_details' = task_details
    /\ result_data' = NoneV
    /\ events' = <<>>
    /\ propagated' = FALSE
    /\ step_raised' = <<>>
    /\ outer_failure' = "none"
    /\ cancel_at' = -1
    /\ dispatched_after_cancel' = FALSE
    /\ last_run' = NoneV
    /\ call_log' = <<>>
    /\ pc' = "loop"
    /\ UNCHANGED <<track, task_count>>

\* execute(): entry up to the per-task loop. A new trace id, a new
\* messenger, the participant id, empty score lists.
ExecuteEntry ==
    /\ pc \in {"idle", "done"}
    /\ \E tid \in TraceIds, input \in UserInputs :
         /\ trace_id' = tid
         /\ participant_id' = IF Strip(input) # <<>> THEN Strip(input) ELSE Unknown
    /\ NewMessenger
    /\ i' = 0
    /\ task' = NoneV
    /\ test_code' = NoneV
    /\ correct_result' = NoneV
    /\ buggy_result' = NoneV
    /\ fault_detection_scores' = <<>>
    /\ mutation_scores' = <<>>
    /\ task_details' = <<>>
    /\ result_data' = NoneV
    /\ events' = <<>>
    /\ propagated' = FALSE
    /\ step_raised' = <<>>
    /\ outer_failure' = "none"
    /\ cancel_at' = -1
    /\ dispatched_after_cancel' = FALSE
    /\ last_run' = NoneV
    /\ call_log' = <<>>
    /\ pc' = "loop"
    /\ UNCHANGED <<track, task_count>>

Execute ==
    /\ ExecuteEntry
    /\ UNCHANGED xvars

\* The per-task handler without the task_details.append
TaskFailed_NoDetail(step) ==
    /\ step_raised' = Append(step_raised, step)
    /\ UNCHANGED task_details
    /\ fault_detection_scores' = Append(fault_detection_scores, Zero)
    /\ mutation_scores' = Append(mutation_scores, Zero)
    /\ i' = i + 1
    /\ pc' = "loop"
    /\ task' = NoneV
    /\ test_code' = NoneV
    /\ correct_result' = NoneV
    /\ buggy_result' = NoneV

\* A handler after which the loop makes the same iteration again
TaskFailed_SameTask(step) ==
    /\ step_raised' = Append(step_raised, step)
    /\ task_details' = Append(task_details, TaskDetail(TaskIdOf(i), Zero, Zero, Zero, FALSE, FALSE))
    /\ fault_detection_scores' = Append(fault_detection_scores, Zero)
    /\ mutation_scores' = Append(mutation_scores, Zero)
    /\ i' = i
    /\ pc' = "loop"
    /\ task' = NoneV
    /\ test_code' = NoneV
    /\ correct_result' = NoneV
    /\ buggy_result' = NoneV

\* The per-task `except Exception` handler: a zero-valued TaskDetail and a
\* zero in both score lists; the loop goes on with the next task.
TaskFailed(step) ==
    /\ step_raised' = Append(step_raised, step)
    /\ task_details' = Append(task_details, TaskDetail(TaskIdOf(i), Zero, Zero, Zero, FALSE, FALSE))
    /\ fault_detection_scores' = Append(fault_detection_scores, Zero)
    /\ mutation_scores' = Append(mutation_scores, Zero)
    /\ i' = i + 1
    /\ pc' = "loop"
    /\ task' = NoneV
    /\ test_code' = NoneV
    /\ correct_result' = NoneV
    /\ buggy_result' = NoneV

\* Loop head and load_task; on success generate_tests is entered.
LoadTask ==
    /\ pc = "loop"
    /\ i < task_count
    /\ dispatched_after_cancel' = (dispatched_after_cancel \/ cancel_at >= 0)
    /\ last_run' = NoneV
    /\ \E task_dir \in TaskDirs :
         LET r == load_task(task_dir, track)
         IN IF r.kind = "raise"
            THEN /\ TaskFailed("load_task")
                 /\ call_log' = Append(call_log, <<i + 1, "load_task">>)
                 /\ UNCHANGED mvars
            ELSE /\ task' = r.value
                 /\ pc' = "gen"
                 /\ GenerateTestsEnter
                 /\ call_log' = call_log \o << <<i + 1, "load_task">>,
                                                <<i + 1, "generate_tests">> >>
                 /\ UNCHANGED <<calls, step_raised, i, test_code, correct_result, buggy_result,
                                fault_detection_scores, mutation_scores, task_details>>
    /\ UNCHANGED <<track, task_count, trace_id, participant_id, result_data, events,
                   propagated, outer_failure, cancel_at>>
    /\ UNCHANGED xvars

\* generate_tests is over: its text is test_code, or its PurpleAgentError
\* fails the task.
GenerateTestsReturn ==
    /\ pc = "gen"
    /\ mpc \in {"returned", "raised"}
    /\ GenerateTestsLeave
    /\ IF mresult.kind = "raise"
       THEN TaskFailed("generate_tests")
       ELSE /\ test_code' = mresult.value
            /\ pc' = "correct"
            /\ UNCHANGED <<step_raised, i, task, correct_result, buggy_result, fault_detection_scores,
                           mutation_scores, task_details>>
    /\ UNCHANGED calls
    /\ UNCHANGED <<track, task_count, trace_id, participant_id, result_data, events,
                   propagated, outer_failure, cancel_at, dispatched_after_cancel, last_run, call_log>>
    /\ UNCHANGED xvars

\* One call of a test-runner wrapper as the executor made it
RunRecord(operation, track_arg, command, proc, result) ==
    [operation |-> operation, track |-> track_arg, command |-> command, proc |-> proc,
     result |-> result]

\* execute_test_against_correct: its result is correct_result, or its
\* exception fails the task.
RunCorrect ==
    /\ pc = "correct"
    /\ \E proc \in ProcOutcomes :
         LET r == execute_test_against_correct(test_code[1], task[1].correct_implementation,
                                               track, proc)
             c == execute_test_against_correct_command(test_code[1],
                                                      task[1].correct_implementation, track)
         IN /\ last_run' = Some(RunRecord("execute_test_against_correct", track, c, proc, r))
            /\ call_log' = Append(call_log, <<i + 1, "execute_test_against_correct">>)
            /\ IF r.kind = "raise"
               THEN TaskFailed("execute_test_against_correct")
               ELSE /\ correct_result' = r.value
                    /\ pc' = "buggy"
                    /\ UNCHANGED <<step_raised, i, task, test_code, buggy_result, fault_detection_scores,
                                   mutation_scores, task_details>>
    /\ UNCHANGED mvars
    /\ UNCHANGED <<track, task_count, trace_id, participant_id, result_data, events,
                   propagated, outer_failure, cancel_at, dispatched_after_cancel>>
    /\ UNCHANGED xvars

\* execute_test_against_buggy, then the detection score joins the list.
RunBuggy ==
    /\ pc = "buggy"
    /\ \E proc \in ProcOutcomes :
         LET r == execute_test_against_buggy(test_code[1], task[1].buggy_implementation,
                                             track, proc)
             c == execute_test_against_buggy_command(test_code[1],
                                                    task[1].buggy_implementation, track)
         IN /\ last_run' = Some(RunRecord("execute_test_against_buggy", track, c, proc, r))
            /\ call_log' = Append(call_log, <<i + 1, "execute_test_against_buggy">>)
            /\ IF r.kind = "raise"
               THEN TaskFailed("execute_test_against_buggy")
               ELSE /\ buggy_result' = r.value
                    /\ fault_detection_scores' =
                           Append(fault_detection_scores,
                                  calculate_fault_detection_score(correct_result, r.value))
                    /\ pc' = "mutation"
                    /\ UNCHANGED <<step_raised, i, task, test_code, correct_result, mutation_scores,
                                   task_details>>
    /\ UNCHANGED mvars
    /\ UNCHANGED <<track, task_count, trace_id, participant_id, result_data, events,
                   propagated, outer_failure, cancel_at, dispatched_after_cancel>>
    /\ UNCHANGED xvars

\* run_mutation_testing, the per-task composite and the TaskDetail.
RunMutation ==
    /\ pc = "mutation"
    /\ \E out \in MutationOutcomes :
         LET r == run_mutation_testing(test_code[1], task[1].correct_implementation, track, out)
             fd_score == calculate_fault_detection_score(correct_result, buggy_result)
         IN IF r.kind = "raise"
            THEN TaskFailed("run_mutation_testing")
            ELSE LET mutation_result == r.value[1]
                     task_composite == calculate_composite_score(mutation_result.mutation_score,
                                                                 fd_score)
                 IN /\ mutation_scores' = Append(mutation_scores, mutation_result.mutation_score)
                    /\ task_details' =
                         Append(task_details,
                                TaskDetail(TaskIdOf(i), mutation_result.mutation_score, fd_score,
                                           task_composite.score, correct_result[1].passed,
                                           ~buggy_result[1].passed))
                    /\ step_raised' = Append(step_raised, "none")
                    /\ i' = i + 1
                    /\ pc' = "loop"
                    /\ task' = NoneV
                    /\ test_code' = NoneV
                    /\ correct_result' = NoneV
                    /\ buggy_result' = NoneV
                    /\ UNCHANGED fault_detection_scores
    /\ last_run' = NoneV
    /\ call_log' = Append(call_log, <<i + 1, "run_mutation_testing">>)
    /\ UNCHANGED mvars
    /\ UNCHANGED <<track, task_count, trace_id, participant_id, result_data, events,
                   propagated, outer_failure, cancel_at, dispatched_after_cancel>>
    /\ UNCHANGED xvars

\* A count of the task_details with passed_correct alone
CountDetected_PassedCorrectOnly(details) ==
    Cardinality({k \in 1..Len(details) : details[k].passed_correct})

\* Number of task_details with passed_correct and failed_buggy
RECURSIVE CountDetected(_)
CountDetected(details) ==
    IF details = <<>> THEN 0
    ELSE (IF Head(details).passed_correct /\ Head(details).failed_buggy THEN 1 ELSE 0)
         + CountDetected(Tail(details))

\* The envelope execute() builds after the loop
BuildOutput ==
    LET fault_detection_rate == aggregate_fault_detection_scores(fault_detection_scores)
        avg_mutation_score == IF mutation_scores # <<>>
                              THEN RDivInt(RSum(mutation_scores), Len(mutation_scores))
                              ELSE Zero
        composite == calculate_composite_score(avg_mutation_score, fault_detection_rate)
        pass_rate == IF task_details # <<>>
                     THEN Rat(CountDetected(task_details), Len(task_details))
                     ELSE Zero
    IN generate_agentbeats_results(participant_id, task_details, composite, pass_rate, track)

\* result_data without the trace id of the request
ResultData_NoTrace(output, tid, total_latency) ==
    [participants |-> output.participants, results |-> output.results,
     trace_id |-> "", latency |-> total_latency]

\* output.model_dump() with trace_id and latency added
ResultData(output, tid, total_latency) ==
    [participants |-> output.participants, results |-> output.results,
     trace_id |-> tid, latency |-> total_latency]

\* An outer handler that only logs
OuterExcept_LogOnly(site) ==
    /\ outer_failure' = site
    /\ pc' = "finally"

\* The outer `except Exception` handler is entered: the failed status
\* event is emitted next.
OuterExcept(site) ==
    /\ outer_failure' = site
    /\ pc' = "emit_failed"

\* The loop is over: scores are aggregated and the envelope is built,
\* unless building it raises.
BuildResults ==
    /\ pc = "loop"
    /\ i >= task_count
    /\ \E built \in BOOLEAN, total_latency \in Latencies :
         IF built
         THEN /\ result_data' = Some(ResultData(BuildOutput, trace_id, total_latency))
              /\ pc' = "emit_artifact"
              /\ UNCHANGED outer_failure
         ELSE /\ OuterExcept("envelope")
              /\ UNCHANGED result_data
    /\ UNCHANGED mvars
    /\ UNCHANGED <<track, task_count, trace_id, participant_id, i, task, test_code,
                   correct_result, buggy_result, fault_detection_scores, mutation_scores,
                   task_details, events, propagated, step_raised, cancel_at,
                   dispatched_after_cancel, last_run, call_log>>
    /\ UNCHANGED xvars

\* An enqueue of the artifact that raises after the event was queued
EmitArtifact_EnqueuedThenRaises ==
    /\ pc = "emit_artifact"
    /\ \E accepted \in BOOLEAN :
         IF accepted
         THEN /\ events' = Append(events, ArtifactEvent(result_data[1]))
              /\ pc' = "emit_completed"
              /\ UNCHANGED outer_failure
         ELSE /\ OuterExcept("artifact")
              /\ events' = Append(events, ArtifactEvent(result_data[1]))
    /\ UNCHANGED mvars
    /\ UNCHANGED <<track, task_count, trace_id, participant_id, i, task, test_code,
                   correct_result, buggy_result, fault_detection_scores, mutation_scores,
                   task_details, result_data, propagated, step_raised, cancel_at,
                   dispatched_after_cancel, last_run, call_log>>
    /\ UNCHANGED xvars

\* event_queue.enqueue_event(TaskArtifactUpdateEvent(...)), which may raise
EmitArtifact ==
    /\ pc = "emit_artifact"
    /\ \E accepted \in BOOLEAN :
         IF accepted
         THEN /\ events' = Append(events, ArtifactEvent(result_data[1]))
              /\ pc' = "emit_completed"
              /\ UNCHANGED outer_failure
         ELSE /\ OuterExcept("artifact")
              /\ UNCHANGED events
    /\ UNCHANGED mvars
    /\ UNCHANGED <<track, task_count, trace_id, participant_id, i, task, test_code,
                   correct_result, buggy_result, fault_detection_scores, mutation_scores,
                   task_details, result_data, propagated, step_raised, cancel_at,
                   dispatched_after_cancel, last_run, call_log>>
    /\ UNCHANGED xvars

\* An enqueue of `completed` that raises after the event was queued
EmitCompleted_EnqueuedThenRaises ==
    /\ pc = "emit_completed"
    /\ \E accepted \in BOOLEAN :
         IF accepted
         THEN /\ events' = Append(events, StatusEvent("completed"))
              /\ pc' = "finally"
              /\ UNCHANGED outer_failure
         ELSE /\ OuterExcept("completed")
              /\ events' = Append(events, StatusEvent("completed"))
    /\ UNCHANGED mvars
    /\ UNCHANGED <<track, task_count, trace_id, participant_id, i, task, test_code,
                   correct_result, buggy_result, fault_detection_scores, mutation_scores,
                   task_details, result_data, propagated, step_raised, cancel_at,
                   dispatched_after_cancel, last_run, call_log>>
    /\ UNCHANGED xvars

\* event_queue.enqueue_event(TaskStatusUpdateEvent(completed)), which may raise
EmitCompleted ==
    /\ pc = "emit_completed"
    /\ \E accepted \in BOOLEAN :
         IF accepted
         THEN /\ events' = Append(events, StatusEvent("completed"))
              /\ pc' = "finally"
              /\ UNCHANGED outer_failure
         ELSE /\ OuterExcept("completed")
              /\ UNCHANGED events
    /\ UNCHANGED mvars
    /\ UNCHANGED <<track, task_count, trace_id, participant_id, i, task, test_code,
                   correct_result, buggy_result, fault_detection_scores, mutation_scores,
                   task_details, result_data, propagated, step_raised, cancel_at,
                   dispatched_after_cancel, last_run, call_log>>
    /\ UNCHANGED xvars

\* In the outer handler: enqueue_event(TaskStatusUpdateEvent(failed)); if
\* that raises too, the exception leaves execute() through the finally block.
EmitFailed ==
    /\ pc = "emit_failed"
    /\ \E accepted \in BOOLEAN :
         IF accepted
         THEN /\ events' = Append(events, StatusEvent("failed"))
              /\ UNCHANGED propagated
         ELSE /\ propagated' = TRUE
              /\ UNCHANGED events
    /\ pc' = "finally"
    /\ UNCHANGED mvars
    /\ UNCHANGED <<track, task_count, trace_id, participant_id, i, task, test_code,
                   correct_result, buggy_result, fault_detection_scores, mutation_scores,
                   task_details, result_data, step_raised, outer_failure, cancel_at,
                   dispatched_after_cancel, last_run, call_log>>
    /\ UNCHANGED xvars

\* execute() without the finally block
Finally_NoClose ==
    /\ pc = "finally"
    /\ pc' = "done"
    /\ UNCHANGED mvars
    /\ UNCHANGED <<track, task_count, trace_id, participant_id, i, task, test_code,
                   correct_result, buggy_result, fault_detection_scores, mutation_scores,
                   task_details, result_data, events, propagated, step_raised,
                   outer_failure, cancel_at, dispatched_after_cancel, last_run, call_log>>
    /\ UNCHANGED xvars

\* finally: await messenger.close()
Finally ==
    /\ pc = "finally"
    /\ close
    /\ pc' = "done"
    /\ UNCHANGED <<attempt, last_error, mpc, mresult, attempt_log, sleeps, calls>>
    /\ UNCHANGED <<track, task_count, trace_id, participant_id, i, task, test_code,
                   correct_result, buggy_result, fault_detection_scores, mutation_scores,
                   task_details, result_data, events, propagated, step_raised, outer_failure, cancel_at,
                   dispatched_after_cancel, last_run, call_log>>
    /\ UNCHANGED xvars

\* cancel(context, event_queue) while execute() is running: the body is
\* `pass`; only the history records that it was called.
Cancel ==
    /\ pc \notin {"idle", "done"}
    /\ cancel_at = -1
    /\ cancel_at' = Len(task_details)
    /\ UNCHANGED mvars
    /\ UNCHANGED <<track, task_count, pc, trace_id, participant_id, i, task, test_code,
                   correct_result, buggy_result, fault_detection_scores, mutation_scores,
                   task_details, result_data, events, propagated, step_raised, outer_failure,
                   dispatched_after_cancel, last_run, call_log>>
    /\ UNCHANGED xvars

\* generate_tests running inside execute()
ExecutorMessengerStep ==
    /\ pc = "gen"
    /\ MessengerStep

(* ---------------- concurrent requests on one server --------------------- *)

\* The requests the server handles at the same time
Requests == {"r1", "r2"}

\* tempfile makes a directory that did not exist before: the one made by
\* call number n + 1.
NewDirectory(n) == n + 1

\* uuid.uuid4(): the value drawn by call number n + 1 (random 122-bit
\* values, taken as never repeating).
uuid4(n) == n + 1

NoTrace == 0

\* The headers (name, value) of a response of the application the server
\* builds: a2a_app.build() with the /health route added and no middleware
\* registered, so only what the framework sets.
ResponseHeaders == { <<"content-type", "application/json">> }

\* One _execute_test_in_isolation call with the directories of the file
\* system: the workspace d is made, the run takes place in it, and the end
\* of the with block decides what is left.
RunInWorkspace(dirs, d, implementation_filename, proc) ==
    LET entered == TemporaryDirectory_enter(dirs, d)
        r == _execute_test_in_isolation("test_code", "implementation",
                                        implementation_filename, proc)
    IN [dirs |-> TemporaryDirectory_exit(entered, d, r), dir |-> d, result |-> r,
        started |-> SubprocessStarted(proc)]

ServerInit ==
    /\ requests = [r \in Requests |-> [pc |-> "idle", i |-> 0, trace_id |-> NoTrace,
                                       used |-> {}, headers |-> {}]]
    /\ tmp_dirs = {}
    /\ mkdtemp_calls = 0
    /\ uuid4_calls = 0
    /\ finished_run = NoneV

\* The position of a request after task number i of its loop
AfterTask(k) == IF k < task_count THEN "task" ELSE "emit"

\* execute() keeping the trace id on the executor instance, which all
\* requests share
ServerExecute_TraceOnInstance(r) ==
    /\ requests[r].pc = "idle"
    /\ uuid4_calls' = uuid4_calls + 1
    /\ requests' = [q \in Requests |->
                      IF q = r
                      THEN [requests[q] EXCEPT !.pc = AfterTask(0),
                                               !.trace_id = uuid4(uuid4_calls)]
                      ELSE [requests[q] EXCEPT !.trace_id = uuid4(uuid4_calls)]]
    /\ UNCHANGED <<tmp_dirs, mkdtemp_calls, finished_run, scored>>
    /\ UNCHANGED <<mvars, evars, rvars, cvars>>

\* execute() of request r up to its first suspension: trace_id is a local
\* variable of the call.
ServerExecute(r) ==
    /\ requests[r].pc = "idle"
    /\ uuid4_calls' = uuid4_calls + 1
    /\ requests' = [requests EXCEPT ![r].pc = AfterTask(0),
                                    ![r].trace_id = uuid4(uuid4_calls)]
    /\ UNCHANGED <<tmp_dirs, mkdtemp_calls, finished_run, scored>>
    /\ UNCHANGED <<mvars, evars, rvars, cvars>>

\* One iteration of the task loop of request r, from the return of
\* generate_tests to the next suspension: the task fails before the tests
\* are run (load_task or generate_tests raised), or the tests are run
\* against correct and, if that returned, against buggy. Nothing in between suspends, so no other request runs
\* during the two calls.
ServerRunTask(r) ==
    /\ requests[r].pc = "task"
    /\ \/ /\ requests' = [requests EXCEPT ![r].i = @ + 1,
                                          ![r].pc = AfterTask(requests[r].i + 1)]
          /\ UNCHANGED <<tmp_dirs, mkdtemp_calls, finished_run>>
       \/ \E pcorrect \in ProcOutcomes :
            LET d1 == NewDirectory(mkdtemp_calls)
                c == RunInWorkspace(tmp_dirs, d1, "correct.py", pcorrect)
                d2 == NewDirectory(mkdtemp_calls + 1)
            IN \E pbuggy \in (IF c.result.kind = "return" THEN ProcOutcomes ELSE {pcorrect}) :
                 LET b == RunInWorkspace(c.dirs, d2, "buggy.py", pbuggy)
                     again == c.result.kind = "return"
                     last == IF again THEN b ELSE c
                     ran == (IF c.started THEN {d1} ELSE {})
                              \cup (IF again /\ b.started THEN {d2} ELSE {})
                 IN /\ tmp_dirs' = last.dirs
                    /\ mkdtemp_calls' = last.dir
                    /\ finished_run' = Some([dir |-> last.dir, kind |-> last.result.kind])
                    /\ requests' = [requests EXCEPT ![r].i = @ + 1,
                                                    ![r].pc = AfterTask(requests[r].i + 1),
                                                    ![r].used = @ \cup ran]
    /\ UNCHANGED <<uuid4_calls, scored>>
    /\ UNCHANGED <<mvars, evars, rvars, cvars>>

\* The rest of execute() for request r: results, events, close()
ServerFinish(r) ==
    /\ requests[r].pc = "emit"
    /\ requests' = [requests EXCEPT ![r].pc = "done", ![r].headers = ResponseHeaders]
    /\ UNCHANGED <<tmp_dirs, mkdtemp_calls, uuid4_calls, finished_run, scored>>
    /\ UNCHANGED <<mvars, evars, rvars, cvars>>

(* ------------------- a caller of the scoring functions ------------------ *)

\* Denominator of the score values tried
MaxGrid == 8

\* Largest mutant count in a report of the mutation tool
MaxMutants == 3

\* Denominator of the scores tried next to 0 and to 1
MaxEdge == 100

\* Scores one step above 0 and one step below 1
EdgeScores == { Rat(1, MaxEdge), Rat(MaxEdge - 1, MaxEdge) }

\* Scores in [0, 1]
UnitGrid == { Rat(k, MaxGrid) : k \in 0..MaxGrid }

\* Results the test runner can return, and a missing result
OptionalResults ==
    {NoneV} \cup { _execute_test_in_isolation("t", "impl", "correct.py", proc).value :
                     proc \in { q \in ProcOutcomes : SubprocessStarted(q) } }

\* Runs of the mutation tool: every report of up to MaxMutants mutants,
\* and the outcomes without a report
MutationRuns ==
    MutationOutcomes \cup
    { [kind |-> k, killed |-> 0, total |-> 0] : k \in ToolFailures } \cup
    { [kind |-> "report", killed |-> kt[1], total |-> kt[2]] :
        kt \in { x \in (0..MaxMutants) \X (0..MaxMutants) : x[1] <= x[2] } }

NotScored == [fn |-> "none", args |-> <<>>, ret |-> <<>>]

ScoringInit == scored = NotScored

\* fd_score = calculate_fault_detection_score(correct_result, buggy_result)
ScoreFaultDetection ==
    /\ \E c \in OptionalResults, b \in OptionalResults :
         scored' = [fn |-> "calculate_fault_detection_score", args |-> <<c, b>>,
                    ret |-> calculate_fault_detection_score(c, b)]
    /\ UNCHANGED <<mvars, evars, svars, rvars, cvars>>

\* mutation_result = run_mutation_testing(test_code, correct_implementation, track)
ScoreMutation ==
    /\ \E out \in MutationRuns, t \in Tracks :
         scored' = [fn |-> "run_mutation_testing", args |-> <<out>>,
                    ret |-> run_mutation_testing("test_code", "implementation", t, out)]
    /\ UNCHANGED <<mvars, evars, svars, rvars, cvars>>

\* task_composite = calculate_composite_score(mutation_result.mutation_score, fd_score)
ScoreTaskComposite ==
    /\ \E m \in UnitGrid, f \in {Zero, One} :
         scored' = [fn |-> "task_composite", args |-> <<m, f>>,
                    ret |-> calculate_composite_score(m, f)]
    /\ UNCHANGED <<mvars, evars, svars, rvars, cvars>>

\* The per-task scoring with the detection score in the mutation slot
ScoreTask_DetectionFirst ==
    /\ \E out \in MutationRuns, fd \in {Zero, One} :
         LET r == run_mutation_testing("test_code", "implementation", "tdd", out)
         IN scored' = [fn |-> "task_score", args |-> <<out, fd>>,
                       ret |-> IF r.kind = "raise" THEN r
                               ELSE Returned(Some(
                                   [mutation_result |-> r.value[1],
                                    task_composite |->
                                        calculate_composite_score(fd, r.value[1].mutation_score)]))]
    /\ UNCHANGED <<mvars, evars, svars, rvars, cvars>>

\* The scoring of one task in execute: the mutation driver, then the
\* composite of its mutation_score and the task's detection score
ScoreTask ==
    /\ \E out \in MutationRuns, fd \in {Zero, One} :
         LET r == run_mutation_testing("test_code", "implementation", "tdd", out)
         IN scored' = [fn |-> "task_score", args |-> <<out, fd>>,
                       ret |-> IF r.kind = "raise" THEN r
                               ELSE Returned(Some(
                                   [mutation_result |-> r.value[1],
                                    task_composite |->
                                        calculate_composite_score(r.value[1].mutation_score, fd)]))]
    /\ UNCHANGED <<mvars, evars, svars, rvars, cvars>>

\* task = load_task(task_dir, track) on a task directory of every kind
CallLoadTask ==
    /\ \E task_dir \in TaskDirs, t \in Tracks :
         scored' = [fn |-> "load_task", args |-> <<task_dir, t>>,
                    ret |-> load_task(task_dir, t)]
    /\ UNCHANGED <<mvars, evars, svars, rvars, cvars>>

\* The call on scores next to the bounds with its two arguments exchanged
ScoreCompositeNearBounds_Swapped ==
    /\ \E m \in {Zero, One} \cup EdgeScores, f \in {Zero, One} \cup EdgeScores :
         scored' = [fn |-> "calculate_composite_score", args |-> <<m, f>>,
                    ret |-> calculate_composite_score(f, m)]
    /\ UNCHANGED <<mvars, evars, svars, rvars, cvars>>

\* composite = calculate_composite_score(avg_mutation_score, fault_detection_rate)
\* on averages at and next to 0 and 1
ScoreCompositeNearBounds ==
    /\ \E m \in {Zero, One} \cup EdgeScores, f \in {Zero, One} \cup EdgeScores :
         scored' = [fn |-> "calculate_composite_score", args |-> <<m, f>>,
                    ret |-> calculate_composite_score(m, f)]
    /\ UNCHANGED <<mvars, evars, svars, rvars, cvars>>

\* The run-level call with its two arguments exchanged
ScoreRunComposite_Swapped ==
    /\ \E m \in UnitGrid, f \in UnitGrid :
         scored' = [fn |-> "run_composite", args |-> <<m, f>>,
                    ret |-> calculate_composite_score(f, m)]
    /\ UNCHANGED <<mvars, evars, svars, rvars, cvars>>

\* composite = calculate_composite_score(avg_mutation_score, fault_detection_rate)
ScoreRunComposite ==
    /\ \E m \in UnitGrid, f \in UnitGrid :
         scored' = [fn |-> "run_composite", args |-> <<m, f>>,
                    ret |-> calculate_composite_score(m, f)]
    /\ UNCHANGED <<mvars, evars, svars, rvars, cvars>>

(* ------------- execute() run again with the same collaborators --------- *)

\* What the collaborators of execute() return for one task, whenever they
\* are asked: the task directory load_task finds, the stream the Purple
\* agent sends, what pytest does on the correct and on the buggy
\* implementation, what the mutation tool does.
FixedTask(task_dir, purple, pcorrect, pbuggy, mutation) ==
    [task_dir |-> task_dir, purple |-> purple, pcorrect |-> pcorrect, pbuggy |-> pbuggy,
     mutation |-> mutation]

CompleteTaskDir == [files |-> TaskFiles, metadata |-> "complete"]
EmptyTaskDir == [files |-> {}, metadata |-> "complete"]
TestsStream == [events |-> <<TaskEvent("completed", << <<TextPart(GoodTests)>> >>)>>,
                error |-> NoError]
EmptyStream == [events |-> <<>>, error |-> NoError]
TimeoutStream == [events |-> <<>>, error |-> "TimeoutException"]
PytestExit(returncode) ==
    [setup |-> "ok", kind |-> "exit", returncode |-> returncode, stderr |-> <<>>]
WorkspaceError == [setup |-> "OSError", kind |-> "exit", returncode |-> 0, stderr |-> <<>>]
MutationReport == [kind |-> "report", killed |-> 1, total |-> 2]
MutationUnavailable == [kind |-> "unavailable", killed |-> 0, total |-> 0]
MutationRaises == [kind |-> "raise", killed |-> 0, total |-> 0]

\* One fixed collaborator set per way a task can go: the task directory
\* is empty; Purple sends no tests; Purple times out on every attempt; the
\* workspace of the first run cannot be written; the tests detect the bug
\* and the tool reports; the tests miss the bug and the tool is missing;
\* the tests detect the bug and the mutation driver raises.
FixedTasks ==
    { FixedTask(EmptyTaskDir, TestsStream, PytestExit(0), PytestExit(1), MutationReport),
      FixedTask(CompleteTaskDir, EmptyStream, PytestExit(0), PytestExit(1), MutationReport),
      FixedTask(CompleteTaskDir, TimeoutStream, PytestExit(0), PytestExit(1), MutationReport),
      FixedTask(CompleteTaskDir, TestsStream, WorkspaceError, PytestExit(1), MutationReport),
      FixedTask(CompleteTaskDir, TestsStream, PytestExit(0), PytestExit(1), MutationReport),
      FixedTask(CompleteTaskDir, TestsStream, PytestExit(0), PytestExit(0), MutationUnavailable),
      FixedTask(CompleteTaskDir, TestsStream, PytestExit(0), PytestExit(1), MutationRaises) }

\* The request texts of the repeated runs
FixedInputs == { <<>>, <<" ", "p", "1", " ">> }

NoFixed == [input |-> <<>>, tasks |-> <<>>]

\* No repeated run is going on
RerunIdle ==
    /\ fixed = NoFixed
    /\ envelopes = <<>>

\* The collaborators are fixed before the first run
RerunInit ==
    /\ fixed \in [input : FixedInputs, tasks : [1..task_count -> FixedTasks]]
    /\ envelopes = <<>>

\* execute() is called with the fixed request, a first and a second time;
\* the caller keeps the result_data of the run that is over.
FixedExecute ==
    /\ pc = "done" => Len(envelopes) < 1
    /\ ExecuteEntry
    /\ participant_id' = IF Strip(fixed.input) # <<>> THEN Strip(fixed.input) ELSE Unknown
    /\ envelopes' = IF pc = "done" THEN Append(envelopes, result_data) ELSE envelopes
    /\ UNCHANGED <<svars, scored, fixed, cvars>>

\* load_task finds the fixed task directory
FixedLoadTask ==
    /\ LoadTask
    /\ LET r == load_task(fixed.tasks[i + 1].task_dir, track)
       IN IF r.kind = "raise" THEN pc' = "loop" ELSE task' = r.value

\* Purple is connected to and sends the fixed stream on every attempt
FixedMessengerStep ==
    /\ ExecutorMessengerStep
    /\ attempt_log' # attempt_log =>
         attempt_log'[Len(attempt_log')] =
             _request_tests(clients, "connected", fixed.tasks[i + 1].purple).result

\* pytest does the fixed thing on the correct implementation
FixedRunCorrect ==
    /\ RunCorrect
    /\ last_run'[1].proc = fixed.tasks[i + 1].pcorrect

\* pytest does the fixed thing on the buggy implementation
FixedRunBuggy ==
    /\ RunBuggy
    /\ last_run'[1].proc = fixed.tasks[i + 1].pbuggy

\* the mutation tool does the fixed thing
FixedRunMutation ==
    /\ RunMutation
    /\ LET r == run_mutation_testing(test_code[1], task[1].correct_implementation, track,
                                     fixed.tasks[i + 1].mutation)
       IN IF r.kind = "raise"
          THEN step_raised'[Len(step_raised')] = "run_mutation_testing"
          ELSE /\ step_raised'[Len(step_raised')] = "none"
               /\ mutation_scores'[Len(mutation_scores')] = r.value[1].mutation_score

(* --------- generate_tests calls at the same time on one messenger ------- *)

\* The generate_tests calls that run at the same time
Callers == {"a", "b"}

NoClient == 0

\* ClientFactory.connect makes a new client object each time it returns:
\* the one made by the call that returns as number n + 1.
NewClient(n) == n + 1

ConcurrentInit ==
    /\ callers = [c \in Callers |-> [pc |-> "idle", attempt |-> 0, last_error |-> NoError,
                                     client |-> NoClient]]
    /\ cached_client = NoClient

\* What the other variables of the messenger and of the rest do while the
\* concurrent calls run
ConcurrentFrame ==
    /\ UNCHANGED <<attempt, last_error, mpc, mresult, attempt_log, sleeps, ok_calls,
                   close_calls, calls>>
    /\ UNCHANGED <<evars, svars, scored, rvars>>

\* The try/except of generate_tests around the result r of the attempt
\* of call c, on the locals of that call
ConcurrentHandle(c, r, client) ==
    LET h == generate_tests_handle(callers[c].attempt, r)
        retried == r.kind = "raise" /\ r.type # "PurpleAgentError"
    IN callers' = [callers EXCEPT ![c] = [pc |-> h.mpc, attempt |-> h.attempt,
                                           last_error |-> IF retried THEN r.type
                                                          ELSE callers[c].last_error,
                                           client |-> client]]

\* generate_tests is called: the loop is about to make attempt 0
ConcurrentGenerateTests(c) ==
    /\ callers[c].pc = "idle"
    /\ callers' = [callers EXCEPT ![c].pc = "attempt"]
    /\ UNCHANGED <<clients, connects, cached_client>>
    /\ ConcurrentFrame

\* _get_client up to its await: `if url not in self._clients` and, on a
\* miss, the call of ClientFactory.connect, which suspends; on a hit the
\* cached client is returned.
GetClientCheck(c) ==
    /\ callers[c].pc = "attempt"
    /\ IF base_url \notin clients
       THEN callers' = [callers EXCEPT ![c].pc = "connecting"]
       ELSE callers' = [callers EXCEPT ![c].pc = "sending", ![c].client = cached_client]
    /\ UNCHANGED <<clients, connects, cached_client>>
    /\ ConcurrentFrame

\* ClientFactory.connect is over: its client is stored under the URL and
\* returned, or its exception reaches the handlers of generate_tests.
GetClientConnect(c) ==
    /\ callers[c].pc = "connecting"
    /\ \E conn \in ConnectOutcomes :
         IF conn = "connected"
         THEN /\ clients' = clients \cup {base_url}
              /\ connects' = connects + 1
              /\ cached_client' = NewClient(connects)
              /\ callers' = [callers EXCEPT ![c].pc = "sending",
                                            ![c].client = NewClient(connects)]
         ELSE /\ ConcurrentHandle(c, Raised(conn, conn, 0, NoError), NoClient)
              /\ UNCHANGED <<clients, connects, cached_client>>
    /\ ConcurrentFrame

\* The rest of _request_tests: the stream of client.send_message is read
\* and the text validated.
SendMessage(c) ==
    /\ callers[c].pc = "sending"
    /\ \E resp \in Responses :
         ConcurrentHandle(c, _request_tests({base_url}, "connected", resp).result,
                          callers[c].client)
    /\ UNCHANGED <<clients, connects, cached_client>>
    /\ ConcurrentFrame

\* asyncio.sleep(delay) of call c is over: its loop goes on
ConcurrentBackoffWake(c) ==
    /\ callers[c].pc = "sleeping"
    /\ LET nxt == for_attempt_next(callers[c].attempt, callers[c].last_error)
       IN callers' = [callers EXCEPT ![c].pc = nxt.mpc, ![c].attempt = nxt.attempt]
    /\ UNCHANGED <<clients, connects, cached_client>>
    /\ ConcurrentFrame

(* --------------------------- specifications ----------------------------- *)

Init ==
    MessengerInit /\ ExecutorInit /\ ServerInit /\ ScoringInit /\ RerunIdle /\ ConcurrentInit

Next ==
    \/ Execute
    \/ LoadTask
    \/ ExecutorMessengerStep
    \/ GenerateTestsReturn
    \/ RunCorrect
    \/ RunBuggy
    \/ RunMutation
    \/ BuildResults
    \/ EmitArtifact
    \/ EmitCompleted
    \/ EmitFailed
    \/ Finally

\* cancel() has an empty body, so the requests a caller cancels go through
\* the same states; Spec leaves the call out and CancelSpec adds it.
Spec == Init /\ [][Next]_vars

CancelNext == Next \/ Cancel

CancelSpec == Init /\ [][CancelNext]_vars

\* One messenger used directly; no executor is running.
MessengerOnlyInit ==
    /\ MessengerInit
    /\ ExecutorInit
    /\ track = "tdd"
    /\ task_count = 0
    /\ ServerInit
    /\ ScoringInit
    /\ RerunIdle
    /\ ConcurrentInit

MessengerNext ==
    \/ CallerGenerateTests
    \/ MessengerStep
    \/ CallerAwaitResult
    \/ CallerClose

MessengerSpec == MessengerOnlyInit /\ [][MessengerNext]_vars

\* Two requests handled by one server; they interleave at the suspension
\* points of execute().
ServerNext ==
    \/ \E r \in Requests : ServerExecute(r)
    \/ \E r \in Requests : ServerRunTask(r)
    \/ \E r \in Requests : ServerFinish(r)

\* The track plays no part in what the requests share.
ServerOnlyInit == Init /\ track = "tdd"

ServerSpec == ServerOnlyInit /\ [][ServerNext]_vars

\* The scoring functions applied to arguments of every kind
ScoringNext ==
    \/ ScoreFaultDetection
    \/ ScoreMutation
    \/ ScoreTaskComposite
    \/ ScoreRunComposite
    \/ ScoreTask
    \/ CallLoadTask
    \/ ScoreCompositeNearBounds

ScoringSpec == Init /\ [][ScoringNext]_vars

\* execute() called twice on one executor with the same request while the
\* collaborators return the same results
RerunOnlyInit ==
    /\ MessengerInit
    /\ ExecutorInit
    /\ ServerInit
    /\ ScoringInit
    /\ RerunInit
    /\ ConcurrentInit

RerunNext ==
    \/ FixedExecute
    \/ FixedLoadTask
    \/ FixedMessengerStep
    \/ GenerateTestsReturn
    \/ FixedRunCorrect
    \/ FixedRunBuggy
    \/ FixedRunMutation
    \/ BuildResults
    \/ EmitArtifact
    \/ EmitCompleted
    \/ EmitFailed
    \/ Finally

RerunSpec == RerunOnlyInit /\ [][RerunNext]_vars

\* Two generate_tests calls on one messenger; they interleave at the
\* awaits of _get_client, of the stream and of the backoff sleep.
ConcurrentNext ==
    \/ \E c \in Callers : ConcurrentGenerateTests(c)
    \/ \E c \in Callers : GetClientCheck(c)
    \/ \E c \in Callers : GetClientConnect(c)
    \/ \E c \in Callers : SendMessage(c)
    \/ \E c \in Callers : ConcurrentBackoffWake(c)

ConcurrentSpec == MessengerOnlyInit /\ [][ConcurrentNext]_vars

(* ------------------------------ properties ------------------------------ *)

Running == pc \notin {"idle", "done"}
AfterLoop == pc \in {"emit_artifact", "emit_completed", "emit_failed", "finally", "done"}

NoEvent(e) == \A k \in 1..Len(events) : events[k] # e
NoStatusEvent == \A k \in 1..Len(events) : events[k].type # "status"
StatusEventCount == Cardinality({k \in 1..Len(events) : events[k].type = "status"})

\* C1: every execute() call calls close() on its Purple client exactly
\* once, whichever way it ends: 0 calls while it runs, 1 when it is over,
\* also when a task step raised, when building or emitting the result raised
\* and when the failed status could not be emitted either.
C1_CloseExactlyOnce ==
    /\ Running => close_calls = 0
    /\ pc = "done" => close_calls = 1

\* C1 witness: execute() ended by an exception, after a task failed, with
\* the client closed once.
C1_Witness ==
    /\ pc = "done"
    /\ propagated
    /\ \E k \in 1..Len(step_raised) : step_raised[k] # "none"
    /\ close_calls = 1

\* C2: a task whose load, test request, test run or mutation run raised
\* has a zero-valued TaskDetail under its own task id, the loop goes on, and
\* after the loop task_details has task_count entries in task order.
C2_TaskFailuresAbsorbed ==
    /\ Len(step_raised) = Len(task_details)
    /\ \A k \in 1..Len(task_details) :
         /\ task_details[k].task_id = <<"task_", 0, 0, k>>
         /\ step_raised[k] # "none" =>
              /\ task_details[k].mutation_score = Zero
              /\ task_details[k].fault_detection_rate = Zero
              /\ task_details[k].composite_score = Zero
              /\ ~task_details[k].passed_correct
              /\ ~task_details[k].failed_buggy
    /\ pc \in {"loop", "gen", "correct", "buggy", "mutation"} => Len(task_details) = i
    /\ AfterLoop => Len(task_details) = task_count

\* C2 witness: mutation testing raised for task 1 and task 2 was still
\* evaluated, with a detection.
C2_Witness ==
    /\ pc = "done"
    /\ task_count = 2
    /\ step_raised = <<"run_mutation_testing", "none">>
    /\ task_details[2].passed_correct
    /\ task_details[2].failed_buggy

\* The artifact event of this request: the envelope of the final
\* task_details with this request's trace id and a measured latency.
IsResultArtifact(e) ==
    /\ e.type = "artifact"
    /\ e.data # NoneV
    /\ e.data[1].participants = [agent |-> participant_id]
    /\ e.data[1].results = BuildOutput.results
    /\ e.data[1].trace_id = trace_id
    /\ e.data[1].trace_id \in TraceIds
    /\ e.data[1].latency \in Latencies

\* C3: with no failure outside the task loop, execute() emits exactly two
\* events: the artifact with the envelope, trace id and latency, then the
\* terminal status `completed`; nothing before the artifact, nothing between
\* them and nothing after.
C3_ArtifactThenCompleted ==
    outer_failure = "none" =>
        /\ pc \in {"idle", "loop", "gen", "correct", "buggy", "mutation", "emit_artifact"}
             => events = <<>>
        /\ pc = "emit_completed" => Len(events) = 1 /\ IsResultArtifact(events[1])
        /\ pc \in {"finally", "done"} =>
             /\ Len(events) = 2
             /\ IsResultArtifact(events[1])
             /\ events[2] = StatusEvent("completed")
             /\ ~propagated

\* C3 witness: a finished request of two tasks, one of them failed, with
\* its two events.
C3_Witness ==
    /\ pc = "done"
    /\ outer_failure = "none"
    /\ Len(task_details) = 2
    /\ \E k \in 1..2 : step_raised[k] # "none"
    /\ Len(events) = 2

\* C4 as claimed: when building the envelope or emitting the artifact
\* raised, a terminal `failed` status event is emitted and no `completed`.
C4_FailedAlwaysEmitted ==
    (pc = "done" /\ outer_failure \in {"envelope", "artifact"}) =>
        /\ \E k \in 1..Len(events) : events[k] = StatusEvent("failed")
        /\ NoEvent(StatusEvent("completed"))

\* C4 amended: when building the envelope or emitting the artifact raised,
\* no `completed` status is emitted; one terminal `failed` status is
\* emitted, as the last event, unless emitting it raises too, and then no
\* status event is emitted and the exception leaves execute().
C4_FailedUnlessEmissionRaises ==
    (pc = "done" /\ outer_failure \in {"envelope", "artifact"}) =>
        /\ NoEvent(StatusEvent("completed"))
        /\ IF propagated
           THEN NoStatusEvent
           ELSE /\ events # <<>>
                /\ events[Len(events)] = StatusEvent("failed")
                /\ StatusEventCount = 1

\* C4 witness: emitting the artifact raised and the request ended with
\* the failed status.
C4_Witness ==
    /\ pc = "done"
    /\ outer_failure = "artifact"
    /\ ~propagated
    /\ events = <<StatusEvent("failed")>>

\* C5: once cancel() was called after k >= 1 of N > k tasks were
\* processed, no further task is started, and the request ends with the
\* terminal status `failed` and one close() of the client.
C5_CancellationStopsRun ==
    (cancel_at >= 1 /\ cancel_at < task_count) =>
        /\ ~dispatched_after_cancel
        /\ pc = "done" =>
             /\ events # <<>>
             /\ events[Len(events)] = StatusEvent("failed")
             /\ close_calls = 1

Retriable(r) == r.kind = "raise" /\ r.type # "PurpleAgentError"

\* C6: one generate_tests call makes at most 3 attempts; every attempt
\* before the last one failed with a retriable error; a call that returned
\* returns the text of its last attempt; and after 3 retriable failures it
\* raises PurpleAgentError naming the error of the third attempt.
C6_AtMostThreeAttempts ==
    /\ Len(attempt_log) <= 3
    /\ \A k \in 1..(Len(attempt_log) - 1) : Retriable(attempt_log[k])
    /\ mpc = "returned" =>
         /\ attempt_log # <<>>
         /\ attempt_log[Len(attempt_log)].kind = "return"
         /\ mresult = attempt_log[Len(attempt_log)]
         /\ mresult.value # NoneV
         /\ mresult.value[1].wellformed
    /\ (Len(attempt_log) = 3 /\ Retriable(attempt_log[3])) =>
         /\ mpc = "raised"
         /\ mresult.kind = "raise"
         /\ mresult.type = "PurpleAgentError"
         /\ mresult.text = "Failed after attempts"
         /\ mresult.n = 3
         /\ mresult.cause = attempt_log[3].type
    /\ (mpc = "raised" /\ mresult.text = "Failed after attempts") =>
         Len(attempt_log) = 3 /\ Retriable(attempt_log[3])

\* C6 witness: three failed attempts, the last with another error than the
\* first, and the raise naming the last.
C6_Witness ==
    /\ mpc = "raised"
    /\ Len(attempt_log) = 3
    /\ attempt_log[1].type # attempt_log[3].type
    /\ mresult.cause = attempt_log[3].type

\* C7: the sleeps of a generate_tests call are 1 s after the first failed
\* attempt and 2 s after the second: none before the first attempt, one
\* between two attempts, none after the last attempt.
C7_BackoffDelays ==
    /\ sleeps \in {<<>>, <<1>>, <<1, 2>>}
    /\ mpc = "idle" => sleeps = <<>>
    /\ mpc = "attempt" => Len(sleeps) = Len(attempt_log)
    /\ mpc = "sleeping" => Len(sleeps) = Len(attempt_log)
    /\ mpc \in {"returned", "raised"} => Len(sleeps) = Len(attempt_log) - 1

\* C7 witness: a call that failed three times slept 1 s and 2 s.
C7_Witness ==
    /\ mpc = "raised"
    /\ Len(attempt_log) = 3
    /\ sleeps = <<1, 2>>

InvalidSyntax(r) == r.kind = "raise" /\ r.text = "Invalid Python syntax in response"

\* C8 as claimed: a generate_tests call that raised for invalid syntax
\* made exactly one attempt and slept not at all.
C8_OneAttemptOnly ==
    (mpc = "raised" /\ InvalidSyntax(mresult)) =>
        /\ Len(attempt_log) = 1
        /\ sleeps = <<>>
        /\ mresult.value = NoneV

\* C8 amended: the attempt that receives syntactically invalid text is
\* the last of its call: generate_tests raises that PurpleAgentError at
\* once, with no later attempt, no sleep after it and no text returned; on
\* the first attempt that is one attempt and no sleep.
C8_InvalidSyntaxNotRetried ==
    \A k \in 1..Len(attempt_log) :
        InvalidSyntax(attempt_log[k]) =>
            /\ k = Len(attempt_log)
            /\ mpc = "raised"
            /\ mresult = attempt_log[k]
            /\ mresult.type = "PurpleAgentError"
            /\ mresult.value = NoneV
            /\ Len(sleeps) = k - 1

\* C8 witness: invalid text received in the second attempt
C8_Witness ==
    /\ mpc = "raised"
    /\ InvalidSyntax(mresult)
    /\ Len(attempt_log) = 2

RunnerResults == {r \in {correct_result, buggy_result} : r # NoneV}

\* C10: every result of the test runner, timeouts included, has
\* passed <=> exit_code = 0 <=> failure_type = "none".
C10_Classification ==
    \A r \in RunnerResults :
        /\ r[1].passed <=> r[1].exit_code = 0
        /\ r[1].exit_code = 0 <=> r[1].failure_type = "none"

\* C10 witness: a timeout result against correct and a passing result
\* against buggy.
C10_Witness ==
    /\ correct_result # NoneV
    /\ buggy_result # NoneV
    /\ correct_result[1].failure_type = "timeout"
    /\ buggy_result[1].passed

\* C11: a run whose subprocess finished within the timeout carries the
\* exit code with failure_type none for 0, assertion for 1 and
\* infrastructure for any other code, and its stderr unchanged; a run whose
\* subprocess exceeded the timeout has passed = false, failure_type timeout
\* and the captured stderr with the timeout annotation appended.
C11_FailureTypeByExitCode ==
    (last_run # NoneV /\ last_run[1].result.kind = "return") =>
        LET proc == last_run[1].proc
            res == last_run[1].result.value[1]
        IN /\ proc.kind \in {"exit", "timeout"}
           /\ proc.kind = "exit" =>
                /\ res.exit_code = proc.returncode
                /\ res.failure_type = (IF proc.returncode = 0 THEN "none"
                                       ELSE IF proc.returncode = 1 THEN "assertion"
                                       ELSE "infrastructure")
                /\ res.stderr = proc.stderr
           /\ proc.kind = "timeout" =>
                /\ ~res.passed
                /\ res.failure_type = "timeout"
                /\ res.stderr = proc.stderr \o <<TimeoutAnnotation>>

\* C11 witness: the tests ended with exit code 5 against correct and ran
\* into the timeout, with some stderr captured, against buggy.
C11_Witness ==
    /\ pc = "mutation"
    /\ correct_result[1].exit_code = 5
    /\ correct_result[1].failure_type = "infrastructure"
    /\ last_run[1].operation = "execute_test_against_buggy"
    /\ last_run[1].proc.kind = "timeout"
    /\ last_run[1].result.value[1].stderr = <<"partial", TimeoutAnnotation>>

\* The TaskDetail recorded for a failed task k
ZeroDetail(k) == TaskDetail(TaskIdOf(k - 1), Zero, Zero, Zero, FALSE, FALSE)

\* C12 as claimed: the runner returns a result for every subprocess
\* outcome and raises only when setting up the workspace failed; the
\* executor then records a zero-valued TaskDetail and goes on.
C12_RaisesOnlyOnSetupFailure ==
    last_run # NoneV =>
        /\ last_run[1].result.kind = "raise" <=> last_run[1].proc.setup # "ok"
        /\ last_run[1].result.kind = "raise" =>
             /\ pc \notin {"gen", "correct", "buggy", "mutation"}
             /\ task_details[Len(task_details)] = ZeroDetail(Len(task_details))

\* C12 amended: the runner returns a result for every outcome of a
\* subprocess that was started (zero exit, non-zero exit, timeout); it
\* raises exactly when writing the workspace failed or the subprocess could
\* not be started, and the executor then records a zero-valued TaskDetail
\* for that task and goes on with the loop.
C12_RaisesOnlyBeforeSubprocess ==
    last_run # NoneV =>
        LET proc == last_run[1].proc
            r == last_run[1].result
        IN /\ SubprocessStarted(proc) => r.kind = "return"
           /\ r.kind = "raise" <=> (proc.setup # "ok" \/ proc.kind = "spawn_error")
           /\ r.kind = "raise" =>
                /\ pc \notin {"gen", "correct", "buggy", "mutation"}
                /\ Len(task_details) = i
                /\ task_details[i] = ZeroDetail(i)
                /\ step_raised[i] = last_run[1].operation

\* C12 witness: writing the workspace for the run against buggy failed in
\* task 1 of 2; the task has its zero detail and the loop is at task 2.
C12_Witness ==
    /\ pc = "loop"
    /\ task_count = 2
    /\ i = 1
    /\ last_run # NoneV
    /\ last_run[1].operation = "execute_test_against_buggy"
    /\ last_run[1].proc.setup = "OSError"
    /\ last_run[1].result.kind = "raise"
    /\ task_details = <<ZeroDetail(1)>>

\* The plugin-load flag for the BDD plugin in a command
HasBddPluginFlag(command) ==
    \E k \in 1..(Len(command) - 1) : command[k] = "-p" /\ command[k + 1] = "pytest_bdd"

\* C15 as claimed: the wrappers hand their track to the runner, whose
\* command has the flag -p pytest_bdd exactly for track = bdd.
C15_TrackPassedThrough ==
    last_run # NoneV =>
        (HasBddPluginFlag(last_run[1].command) <=> last_run[1].track = "bdd")

\* C13: whatever the outcome of a test-runner invocation (pass, fail,
\* timeout, an exception while writing the files or starting the run), the
\* workspace directory it created does not exist any more once it has
\* returned or raised: after any sequence of invocations no directory made
\* by one of them is left.
C13_WorkspaceRemoved ==
    /\ tmp_dirs = {}
    /\ \A d \in 1..mkdtemp_calls : d \notin tmp_dirs
    /\ finished_run # NoneV => finished_run[1].dir \notin tmp_dirs

\* C13 witness: several invocations have taken place, the last one raised,
\* and no workspace is left.
C13_Witness ==
    /\ mkdtemp_calls >= 3
    /\ finished_run # NoneV
    /\ finished_run[1].kind = "raise"
    /\ finished_run[1].dir = mkdtemp_calls
    /\ tmp_dirs = {}

\* C14: two requests the server has started have different trace ids, and
\* no workspace directory was used by subprocesses of both.
C14_TraceAndWorkspaceIsolation ==
    \A r1 \in Requests, r2 \in Requests :
        (r1 # r2 /\ requests[r1].pc # "idle" /\ requests[r2].pc # "idle") =>
            /\ requests[r1].trace_id # requests[r2].trace_id
            /\ requests[r1].used \cap requests[r2].used = {}

\* C14 witness: both requests are in their task loops at the same time and
\* each has run tests in a workspace.
C14_Witness ==
    /\ \A r \in Requests : requests[r].pc = "task" /\ requests[r].used # {}
    /\ requests["r1"].trace_id # NoTrace
    /\ requests["r2"].trace_id # NoTrace

\* C16: the detection score of a pair of results, each of which may be
\* missing, is 1.0 exactly when both are present, the tests passed against
\* correct and did not pass against buggy; it is 0.0 otherwise.
C16_DetectionScore ==
    scored.fn = "calculate_fault_detection_score" =>
        LET c == scored.args[1]
            b == scored.args[2]
        IN /\ scored.ret \in {Zero, One}
           /\ scored.ret = One <=>
                (c # NoneV /\ b # NoneV /\ c[1].passed /\ ~b[1].passed)

\* C16 witness: the tests passed against correct and timed out against
\* buggy, which scores 1.0.
C16_Witness ==
    /\ scored.fn = "calculate_fault_detection_score"
    /\ scored.args[1] # NoneV
    /\ scored.args[2] # NoneV
    /\ scored.args[1][1].passed
    /\ scored.args[2][1].failure_type = "timeout"
    /\ scored.ret = One

RECURSIVE SumOfMutationScores(_)
SumOfMutationScores(details) ==
    IF details = <<>> THEN Zero
    ELSE RAdd(Head(details).mutation_score, SumOfMutationScores(Tail(details)))

RECURSIVE SumOfDetectionRates(_)
SumOfDetectionRates(details) ==
    IF details = <<>> THEN Zero
    ELSE RAdd(Head(details).fault_detection_rate, SumOfDetectionRates(Tail(details)))

\* The envelope of the request, once it is built
Envelope == result_data[1].results[1]

\* C17 as claimed: the mutation score and the fault-detection rate of the
\* envelope are the means, over the task_count tasks, of the per-task
\* values in task_details (0.0 without tasks), each task having
\* contributed one value to each mean.
C17_MeansOverTasks ==
    result_data # NoneV =>
        /\ Len(mutation_scores) = task_count
        /\ Len(fault_detection_scores) = task_count
        /\ Envelope.task_rewards.mutation_score =
             (IF task_count = 0 THEN Zero
              ELSE RDivInt(SumOfMutationScores(task_details), task_count))
        /\ Envelope.task_rewards.fault_detection_rate =
             (IF task_count = 0 THEN Zero
              ELSE RDivInt(SumOfDetectionRates(task_details), task_count))

\* The tasks whose tests passed against correct and failed against buggy
DetectedTasks ==
    {k \in 1..Len(task_details) :
        task_details[k].passed_correct /\ task_details[k].failed_buggy}

\* C18: the envelope has one eval result and the participants mapping
\* with the one key agent; task_rewards.task_count is the length of
\* task_details; pass_rate is the fraction of task_details with
\* passed_correct and failed_buggy, 0.0 with no task_details when
\* task_count is 0.
C18_EnvelopeShape ==
    result_data # NoneV =>
        /\ Len(result_data[1].results) = 1
        /\ DOMAIN result_data[1].participants = {"agent"}
        /\ Envelope.task_rewards.task_count = Len(task_details)
        /\ Envelope.detail.task_details = task_details
        /\ Envelope.pass_rate[1] * Len(task_details)
             = Cardinality(DetectedTasks) * Envelope.pass_rate[2]
        /\ task_count = 0 => (task_details = <<>> /\ Envelope.pass_rate = Zero)
        /\ task_details = <<>> => Envelope.pass_rate = Zero

\* C18 witness: two tasks, bug caught in one; in the other the tests
\* passed against both implementations; pass_rate is 1/2.
C18_Witness ==
    /\ pc = "done"
    /\ result_data # NoneV
    /\ Len(task_details) = 2
    /\ task_details[1].passed_correct /\ task_details[1].failed_buggy
    /\ task_details[2].passed_correct /\ ~task_details[2].failed_buggy
    /\ Envelope.pass_rate = <<1, 2>>

RLeq(x, y) == x[1] * y[2] <= y[1] * x[2]

\* x is the multiple of 1/100 nearest to 0.60*m + 0.40*f
NearestHundredth(x, m, f) ==
    LET wn == 60 * m[1] * f[2] + 40 * f[1] * m[2]
        wd == m[2] * f[2]
        h == (100 * x[1]) \div x[2]
        diff == IF wn >= h * wd THEN wn - h * wd ELSE h * wd - wn
    IN /\ (100 * x[1]) % x[2] = 0
       /\ 2 * diff <= wd

\* C19: for m and f in [0, 1] the composite score is 0.60*m + 0.40*f
\* rounded to two decimals; it lies in [0, 1] and does not decrease when m
\* grows with f fixed or f grows with m fixed. The per-task call and the
\* run-level call of the executor use the same function.
C19_CompositeScore ==
    scored.fn \in {"task_composite", "run_composite"} =>
        LET m == scored.args[1]
            f == scored.args[2]
            score == scored.ret.score
        IN /\ scored.ret.mutation_score = m
           /\ scored.ret.fault_detection_rate = f
           /\ NearestHundredth(score, m, f)
           /\ RLeq(Zero, score) /\ RLeq(score, One)
           /\ \A m2 \in UnitGrid :
                RLeq(m, m2) => RLeq(score, calculate_composite_score(m2, f).score)
           /\ \A f2 \in UnitGrid :
                RLeq(f, f2) => RLeq(score, calculate_composite_score(m, f2).score)

\* C19 witness: a run-level score whose weighted sum, 0.175, lies between
\* two hundredths.
C19_Witness ==
    /\ scored.fn = "run_composite"
    /\ scored.args = << <<1, 8>>, <<1, 4>> >>
    /\ scored.ret.score \in { <<17, 100>>, <<9, 50>> }

\* C20: a MutationResult the driver returns has 0 <= killed <= total,
\* survived = total - killed, mutation_score = killed/total for total > 0
\* and 0 for total = 0, and an error only when total = 0.
C20_MutationResult ==
    (scored.fn = "run_mutation_testing" /\ scored.ret.kind = "return") =>
        LET res == scored.ret.value[1]
        IN /\ 0 <= res.killed
           /\ res.killed <= res.total
           /\ res.survived = res.total - res.killed
           /\ res.total > 0 =>
                res.mutation_score[1] * res.total = res.killed * res.mutation_score[2]
           /\ res.total = 0 => res.mutation_score = Zero
           /\ res.error # NoError => res.total = 0

\* C20 witness: a report of 2 mutants killed out of 3.
C20_Witness ==
    /\ scored.fn = "run_mutation_testing"
    /\ scored.ret.kind = "return"
    /\ scored.ret.value[1].killed = 2
    /\ scored.ret.value[1].total = 3
    /\ scored.ret.value[1].mutation_score = <<2, 3>>

\* C21: when the mutation tool is not located, its subprocess times out or
\* the process cannot be spawned, the driver raises nothing and returns a
\* MutationResult with killed = survived = total = 0, mutation_score 0.0 and
\* a non-empty error; the task's composite is then 0.40 x its detection
\* score.
C21_ToolFailureGivesZeros ==
    (scored.fn = "task_score" /\ scored.args[1].kind \in ToolFailures) =>
        /\ scored.ret.kind = "return"
        /\ LET res == scored.ret.value[1].mutation_result
               composite == scored.ret.value[1].task_composite
               fd == scored.args[2]
           IN /\ res.killed = 0
              /\ res.survived = 0
              /\ res.total = 0
              /\ res.mutation_score = Zero
              /\ res.error # NoError
              /\ res.error # ""
              /\ composite.score[1] * 100 * fd[2] = 40 * fd[1] * composite.score[2]

\* C21 witness: the tool's subprocess timed out on a task whose tests
\* detect the bug, and the task's composite is 0.40.
C21_Witness ==
    /\ scored.fn = "task_score"
    /\ scored.args[1].kind = "timeout"
    /\ scored.args[2] = One
    /\ scored.ret.kind = "return"
    /\ scored.ret.value[1].mutation_result.error = "mutmut timed out"
    /\ scored.ret.value[1].task_composite.score = <<2, 5>>

\* The files load_task requires of a task directory for a track
RequiredFiles(t) ==
    {"metadata.json", IF t = "tdd" THEN "spec.py" ELSE "spec.feature",
     "implementation/correct.py", "implementation/buggy.py"}

\* C22: when any of the required task files (metadata.json, the track's
\* spec file, implementation/correct.py, implementation/buggy.py) is
\* missing, load_task raises a TaskLoadError naming a missing file and
\* returns no Task; it returns a Task only when all four are present, and
\* then the Task's track is the requested track and all its fields are
\* non-empty.
C22_LoadTask ==
    scored.fn = "load_task" =>
        LET task_dir == scored.args[1]
            t == scored.args[2]
            missing == RequiredFiles(t) \ task_dir.files
        IN /\ missing # {} =>
                /\ scored.ret.kind = "raise"
                /\ scored.ret.type = "TaskLoadError"
                /\ scored.ret.cause \in missing
           /\ scored.ret.kind = "return" =>
                /\ missing = {}
                /\ scored.ret.value[1].track = t
                /\ scored.ret.value[1].task_id # ""
                /\ scored.ret.value[1].function_name # ""
                /\ scored.ret.value[1].spec # ""
                /\ scored.ret.value[1].correct_implementation # ""
                /\ scored.ret.value[1].buggy_implementation # ""

\* C23: with every collaborator (task loader, Purple client, test runner,
\* mutation driver) returning fixed results, two runs of execute with the
\* same settings and the same request give envelopes that are equal in
\* every field other than trace_id and latency; the second run starts from
\* empty lists and an empty client cache, whatever the first one left.
C23_RerunStable ==
    Len(envelopes) = 1 =>
        /\ (pc = "loop" /\ i = 0) =>
              /\ task_details = <<>>
              /\ fault_detection_scores = <<>>
              /\ mutation_scores = <<>>
              /\ events = <<>>
              /\ result_data = NoneV
              /\ clients = {}
        /\ (envelopes[1] # NoneV /\ result_data # NoneV) =>
              /\ result_data[1].participants = envelopes[1][1].participants
              /\ result_data[1].results = envelopes[1][1].results

\* C23 witness: the second of two runs over two tasks is over; both runs
\* built an envelope, with a non-zero score and a zero-valued task in it.
C23_Witness ==
    /\ Len(envelopes) = 1
    /\ pc = "done"
    /\ task_count = 2
    /\ envelopes[1] # NoneV
    /\ result_data # NoneV
    /\ result_data[1].results[1].score # Zero
    /\ result_data[1].results[1].detail.task_details[2] = ZeroDetail(2)
    /\ result_data[1].participants.agent = <<"p", "1">>

\* C24: every inbound HTTP request gets a fresh UUIDv4 request id, which
\* is attached to its response as the X-Request-ID header; any two requests
\* get different ids.
C24_RequestIdHeader ==
    /\ \A r \in Requests :
         requests[r].pc = "done" =>
             \E h \in requests[r].headers : h[1] = "x-request-id"
    /\ \A r \in Requests : \A q \in Requests \ {r} :
         \A h \in requests[r].headers, g \in requests[q].headers :
             (h[1] = "x-request-id" /\ g[1] = "x-request-id") => h[2] # g[2]

\* C25: when two generate_tests calls run at the same time on one
\* messenger for the same URL and the cache is empty, the check and the
\* insert of _get_client are serialized: one connect is made and both calls
\* use the same cached client.
C25_SingleConnect ==
    (\A c \in Callers : callers[c].client # NoClient /\ callers[c].attempt = 0) =>
        /\ connects = 1
        /\ \A c \in Callers : callers[c].client = cached_client

\* The collaborator calls of one task, in the order execute() makes them
TaskSteps == <<"load_task", "generate_tests", "execute_test_against_correct",
               "execute_test_against_buggy", "run_mutation_testing">>

StepRank(step) == CHOOSE k \in 1..Len(TaskSteps) : TaskSteps[k] = step

\* C26: within one execute, the collaborator calls of a task are made in
\* the order load, request tests, run against correct, run against buggy,
\* mutation, each at most once per task and each once for a task no step of
\* which raised; the calls of a task are over before a call of the next
\* task starts; a step that raises skips the remaining steps of its own
\* task and nothing else.
C26_CallOrder ==
    /\ call_log # <<>> => call_log[1] = <<1, "load_task">>
    /\ \A k \in 1..(Len(call_log) - 1) :
         \/ /\ call_log[k + 1][1] = call_log[k][1]
            /\ StepRank(call_log[k + 1][2]) = StepRank(call_log[k][2]) + 1
         \/ /\ call_log[k + 1][1] = call_log[k][1] + 1
            /\ call_log[k + 1][2] = "load_task"
            /\ call_log[k][1] <= Len(step_raised)
    /\ \A t \in 1..Len(step_raised) :
         { call_log[k][2] : k \in { j \in 1..Len(call_log) : call_log[j][1] = t } }
           = { TaskSteps[j] :
                 j \in 1..(IF step_raised[t] = "none" THEN Len(TaskSteps)
                           ELSE StepRank(step_raised[t])) }
    /\ mpc # "idle" => call_log[Len(call_log)] = <<i + 1, "generate_tests">>
    /\ AfterLoop => Len(step_raised) = task_count

\* C26 witness: execute() is over for two tasks; the run against correct
\* raised in the first, whose two remaining steps were skipped, and the
\* second made all five calls.
C26_Witness ==
    /\ pc = "done"
    /\ step_raised = <<"execute_test_against_correct", "none">>
    /\ Len(call_log) = 8
    /\ call_log[3] = <<1, "execute_test_against_correct">>
    /\ call_log[4] = <<2, "load_task">>
    /\ call_log[8] = <<2, "run_mutation_testing">>

\* A composite score was computed from two scores
CompositeScored == scored.fn \in {"calculate_composite_score", "run_composite", "task_composite"}

\* 0.60 x mutation_score + 0.40 x fault_detection_rate, before rounding
WeightedSum(m, f) == RAdd(RDivInt(<<60 * m[1], m[2]>>, 100), RDivInt(<<40 * f[1], f[2]>>, 100))

\* C27 as stated: the composite score is 1.0 only when mutation_score and
\* fault_detection_rate are both 1 and 0.0 only when both are 0.
C27_BoundsOnlyAtCorners ==
    CompositeScored =>
        /\ scored.ret.score = One => (scored.args[1] = One /\ scored.args[2] = One)
        /\ scored.ret.score = Zero => (scored.args[1] = Zero /\ scored.args[2] = Zero)

\* C27 amended: the composite score is 1.0 at (1, 1) and 0.0 at (0, 0),
\* and because it is rounded to two decimals it is also 1.0 for every pair
\* whose weighted sum is above 0.995 and 0.0 for every pair whose weighted
\* sum is below 0.005; it is 1.0 only for sums of at least 0.995 and 0.0
\* only for sums of at most 0.005.
C27_BoundsAfterRounding ==
    CompositeScored =>
        LET m == scored.args[1]
            f == scored.args[2]
            w == WeightedSum(m, f)
            score == scored.ret.score
        IN /\ (m = One /\ f = One) => score = One
           /\ (m = Zero /\ f = Zero) => score = Zero
           /\ 200 * w[1] > 199 * w[2] => score = One
           /\ score = One => 200 * w[1] >= 199 * w[2]
           /\ 200 * w[1] < w[2] => score = Zero
           /\ score = Zero => 200 * w[1] <= w[2]

\* C27 witness: a composite of 1.0 for a full mutation score and a
\* detection rate below 1.
C27_Witness ==
    /\ scored.fn = "calculate_composite_score"
    /\ scored.args[1] = One
    /\ scored.args[2] # One
    /\ scored.ret.score = One

\* C28: in every execute call that returns without raising, one terminal
\* status event (final = true) is emitted and it is the last event;
\* `completed` and `failed` are never both emitted.
C28_OneTerminalStatus ==
    /\ NoEvent(StatusEvent("completed")) \/ NoEvent(StatusEvent("failed"))
    /\ \A k \in 1..Len(events) : events[k].final => k = Len(events)
    /\ (pc = "done" /\ ~propagated) =>
          /\ StatusEventCount = 1
          /\ events[Len(events)].type = "status"
          /\ events[Len(events)].final
          /\ events[Len(events)].state \in {"completed", "failed"}

\* C28 witness: emitting `completed` raised after the artifact was
\* accepted, `failed` was emitted in its place and execute() returned.
C28_Witness ==
    /\ pc = "done"
    /\ ~propagated
    /\ outer_failure = "completed"
    /\ Len(events) = 2
    /\ events[2] = StatusEvent("failed")

ArtifactEmitted == \E k \in 1..Len(events) : events[k].type = "artifact"

\* C29 as stated: an artifact event is emitted only if the terminal
\* status is `completed`; whenever the terminal status is `failed`, also
\* when emitting `completed` itself raised, no artifact event has been
\* emitted.
C29_NoArtifactWithFailed ==
    ~NoEvent(StatusEvent("failed")) => ~ArtifactEmitted

\* C29 amended: an artifact event is in the stream only when building the
\* envelope and emitting the artifact succeeded. A `completed` status always
\* follows one artifact. A `failed` status follows no artifact when building
\* the envelope or emitting the artifact raised, and follows the artifact
\* when emitting `completed` raised.
C29_ArtifactBeforeFailedOnlyIfCompletedRaised ==
    /\ ArtifactEmitted => outer_failure \in {"none", "completed"}
    /\ ~NoEvent(StatusEvent("completed")) =>
          /\ Len(events) = 2
          /\ IsResultArtifact(events[1])
          /\ events[2] = StatusEvent("completed")
    /\ ~NoEvent(StatusEvent("failed")) =>
          IF outer_failure = "completed"
          THEN /\ Len(events) = 2
               /\ IsResultArtifact(events[1])
               /\ events[2] = StatusEvent("failed")
          ELSE events = <<StatusEvent("failed")>>

\* C29 witness: the artifact of a one-task run was accepted, emitting
\* `completed` raised, and the stream ends with `failed`.
C29_Witness ==
    /\ pc = "done"
    /\ task_count = 1
    /\ outer_failure = "completed"
    /\ ArtifactEmitted
    /\ events[Len(events)] = StatusEvent("failed")
    /\ NoEvent(StatusEvent("completed"))

\* The events of a stream that are a completed task carrying artifacts
CompletedWithArtifacts(stream) ==
    { k \in 1..Len(stream) : /\ stream[k].kind = "task"
                             /\ stream[k].state = "completed"
                             /\ stream[k].artifacts # <<>> }

HasTextPart(artifacts) ==
    \E a \in 1..Len(artifacts) : \E q \in 1..Len(artifacts[a]) :
        artifacts[a][q].type = "text"

\* A stream that ends without a completed task carrying artifacts, or
\* whose first completed task with artifacts has no text part
StreamWithoutTests(resp) ==
    LET S == CompletedWithArtifacts(resp.events)
    IN \/ resp.error = NoError /\ S = {}
       \/ /\ S # {}
          /\ ~HasTextPart(resp.events[CHOOSE k \in S : \A j \in S : k <= j].artifacts)

NoTestsReturned(r) ==
    /\ r.kind = "raise"
    /\ r.type = "PurpleAgentError"
    /\ r.text = "No tests returned from Purple Agent"

\* C30: when the Purple stream ends without a completed task carrying
\* artifacts, or its first completed task with artifacts has no text part,
\* the attempt raises PurpleAgentError and generate_tests raises it on that
\* attempt: no attempt and no sleep follow it, also when fewer than 3
\* attempts were made.
C30_NoTestsNotRetried ==
    /\ \A resp \in Responses :
         StreamWithoutTests(resp) <=>
             NoTestsReturned(_request_tests({base_url}, "connected", resp).result)
    /\ \A k \in 1..Len(attempt_log) :
         NoTestsReturned(attempt_log[k]) =>
             /\ k = Len(attempt_log)
             /\ mpc = "raised"
             /\ mresult = attempt_log[k]
             /\ Len(sleeps) = k - 1

\* C30 witness: the first attempt timed out, the stream of the second
\* carried no tests, and the call raised after two attempts and one sleep.
C30_Witness ==
    /\ mpc = "raised"
    /\ NoTestsReturned(mresult)
    /\ Len(attempt_log) = 2
    /\ sleeps = <<1>>

====
